---- MODULE Spec2Model ----
(***************************************************************************)
(* Timeline segmentation and hybrid GPU/CPU render pipeline of             *)
(* video_processor_gpu_infra.                                              *)
(*                                                                         *)
(* Time is counted in units of half a millisecond, so that the 0.001 s     *)
(* threshold of create_segments is EPS = 2 units and sub-intervals shorter *)
(* than the threshold exist.  Speed and zoom factors are counted in tenths *)
(* (10 is 1.0); the zoom sentinel "none" is ZOOM_NONE.                     *)
(***************************************************************************)
EXTENDS Integers, Sequences, FiniteSets, TLC

VARIABLES
    pc,                    \* position of the modelled call
    edits,                 \* List[Edit] given to create_segments
    subtitles,             \* List[Subtitle] given to create_segments
    total_duration,        \* total_duration given to create_segments
    orig_res,              \* <<orig_w, orig_h>>
    out_res,               \* <<out_w, out_h>>
    DEBUG_OVERLAY,         \* config.DEBUG_OVERLAY
    ENABLE_COLOR_GRADING,  \* config.ENABLE_COLOR_GRADING
    segments,              \* the list returned by create_segments
    args,                  \* the argument tuple of render_segment_smart
    gpu_hw,                \* whether the hardware probe succeeds on this machine
    gpu_cache,             \* utils.gpu._GPU_SUPPORT_CACHE: "None", "True", "False"
    probes,                \* the hardware probes check_gpu_support has started
    invocations,           \* the external ffmpeg invocations made, in order
    result,                \* "none", "returned" or "raised"
    error,                 \* the exception raised, "" when none
    futures,               \* state of each submitted segment render, by position
    segment_files,         \* render_final_video's list of (index, file), as indices
    failed_segments,       \* handler.render_final_video's list of failed indices
    concat_list,           \* the indices written to concat.txt, in file order
    input_exists,          \* whether the input video is still on disk
    temp_exists,           \* whether the temporary segment directory exists
    response,              \* the dict returned by handler()
    calls,                 \* the run_ffmpeg calls in progress, by worker
    procs,                 \* the external processes, by worker and role
    clock,                 \* the job's wall clock against the job limit: "within", "over"
    job                    \* the job handed to handler(), by its input's video_url

tvars == <<edits, subtitles, total_duration, orig_res, out_res,
           DEBUG_OVERLAY, ENABLE_COLOR_GRADING, segments>>

rvars == <<args, gpu_hw, gpu_cache, probes, invocations, result, error>>

jvars == <<futures, segment_files, failed_segments, concat_list,
           input_exists, temp_exists, response>>

pvars == <<calls, procs, clock, job>>

vars == <<pc, tvars, rvars, jvars, pvars>>

(***************************************************************************)
(* Bounds and program constants                                            *)
(***************************************************************************)
MaxTime == 6
MaxEdits == 2
MaxSubs == 1

EPS == 2
ONE == 10
ZOOM_NONE == -1

Times == -1 .. MaxTime
Durations == {MaxTime - 1, MaxTime}

Min(a, b) == IF a < b THEN a ELSE b
Max(a, b) == IF a > b THEN a ELSE b

(***************************************************************************)
(* models.py                                                               *)
(***************************************************************************)
Edit(type, start, end, speed, zoom) ==
    [type |-> type, start |-> start, end |-> end, speed |-> speed, zoom |-> zoom]

Subtitle(text, start, end) == [text |-> text, start |-> start, end |-> end]

\* Optional[Edit] = None
None == Edit("None", 0, 0, ONE, ONE)

Segment(start, end, edit, is_original, subs, needs_processing, can_copy) ==
    [start |-> start, end |-> end, edit |-> edit, is_original |-> is_original,
     subtitles |-> subs, needs_processing |-> needs_processing,
     can_copy |-> can_copy]

duration(seg) == seg.end - seg.start

(***************************************************************************)
(* processor/analyzer.py                                                   *)
(***************************************************************************)
\* The resolution test comparing the widths only.
analyze_width_only(seg, orig_w, orig_h, out_w, out_h, debug, grading) ==
    LET first_branch == seg.is_original /\ seg.subtitles = <<>> /\ ~debug
        can_copy == first_branch /\ orig_w = out_w /\ ~grading
        needs0 == IF first_branch THEN ~can_copy ELSE TRUE
        needs1 == IF seg.edit # None
                     /\ (seg.edit.speed # ONE \/ seg.edit.zoom \notin {ZOOM_NONE, ONE})
                  THEN TRUE ELSE needs0
    IN  <<needs1, can_copy>>

\* The copy test leaving out seg.is_original.
analyze_ignoring_edit(seg, orig_w, orig_h, out_w, out_h, debug, grading) ==
    LET first_branch == seg.subtitles = <<>> /\ ~debug
        can_copy == first_branch /\ orig_w = out_w /\ orig_h = out_h /\ ~grading
        needs0 == IF first_branch THEN ~can_copy ELSE TRUE
        needs1 == IF seg.edit # None
                     /\ (seg.edit.speed # ONE \/ seg.edit.zoom \notin {ZOOM_NONE, ONE})
                  THEN TRUE ELSE needs0
    IN  <<needs1, can_copy>>

analyze_segment_processing(seg, orig_w, orig_h, out_w, out_h, debug, grading) ==
    LET first_branch == seg.is_original /\ seg.subtitles = <<>> /\ ~debug
        can_copy == first_branch /\ orig_w = out_w /\ orig_h = out_h /\ ~grading
        needs0 == IF first_branch THEN ~can_copy ELSE TRUE
        needs1 == IF seg.edit # None
                     /\ (seg.edit.speed # ONE \/ seg.edit.zoom \notin {ZOOM_NONE, ONE})
                  THEN TRUE ELSE needs0
    IN  <<needs1, can_copy>>

(***************************************************************************)
(* processor/timeline.py                                                   *)
(***************************************************************************)
clamp(t, total) == Max(0, Min(t, total))

boundaries(es, total) ==
    {0, total} \cup {clamp(es[k].start, total) : k \in DOMAIN es}
               \cup {clamp(es[k].end, total) : k \in DOMAIN es}

RECURSIVE sorted(_)
sorted(S) ==
    IF S = {} THEN <<>>
    ELSE LET m == CHOOSE x \in S : \A y \in S : x <= y
         IN  <<m>> \o sorted(S \ {m})

\* The boundary points in insertion order, left unsorted.
unsorted_points(es, total) ==
    LET RECURSIVE pts(_)
        pts(k) == IF k > Len(es) THEN <<>>
                  ELSE <<clamp(es[k].start, total), clamp(es[k].end, total)>>
                           \o pts(k + 1)
    IN  <<0, total>> \o pts(1)

sorted_points(es, total) == sorted(boundaries(es, total))

\* A cut that loses against an overlapping non-cut edit.
is_cut_unless_edited(es, start, end) ==
    /\ \E k \in DOMAIN es :
           es[k].type = "cut" /\ ~(end <= es[k].start \/ start >= es[k].end)
    /\ ~\E k \in DOMAIN es :
           es[k].type # "cut" /\ ~(end <= es[k].start \/ start >= es[k].end)

is_cut(es, start, end) ==
    \E k \in DOMAIN es :
        es[k].type = "cut" /\ ~(end <= es[k].start \/ start >= es[k].end)

\* The threshold test written with <= instead of <.
skipped_at_threshold(es, start, end) ==
    end - start <= EPS \/ is_cut(es, start, end)

skipped(es, start, end) == end - start < EPS \/ is_cut(es, start, end)

\* The last overlapping non-cut edit of the list instead of the first.
active_edit_last(es, start, end) ==
    LET hits == {k \in DOMAIN es :
                    es[k].type # "cut" /\ ~(end <= es[k].start \/ start >= es[k].end)}
    IN  IF hits = {} THEN None
        ELSE es[CHOOSE k \in hits : \A j \in hits : k >= j]

active_edit(es, start, end) ==
    LET hits == {k \in DOMAIN es :
                    es[k].type # "cut" /\ ~(end <= es[k].start \/ start >= es[k].end)}
    IN  IF hits = {} THEN None
        ELSE es[CHOOSE k \in hits : \A j \in hits : k <= j]

overlapping_subs(subs, start, end) ==
    LET Hit(s) == ~(s.end <= start \/ s.start >= end)
    IN  SelectSeq(subs, Hit)

make_segment(es, subs, start, end, orig_w, orig_h, out_w, out_h, debug, grading) ==
    LET ae == active_edit(es, start, end)
        seg == Segment(start, end, ae, ae = None,
                       overlapping_subs(subs, start, end), TRUE, FALSE)
        a == analyze_segment_processing(seg, orig_w, orig_h, out_w, out_h,
                                        debug, grading)
    IN  [seg EXCEPT !.needs_processing = a[1], !.can_copy = a[2]]

create_segments(es, subs, total, orig_w, orig_h, out_w, out_h, debug, grading) ==
    LET sp == sorted_points(es, total)
        RECURSIVE loop(_)
        loop(i) ==
            IF i > Len(sp) - 1 THEN <<>>
            ELSE IF skipped(es, sp[i], sp[i + 1]) THEN loop(i + 1)
            ELSE <<make_segment(es, subs, sp[i], sp[i + 1], orig_w, orig_h,
                                out_w, out_h, debug, grading)>> \o loop(i + 1)
    IN  loop(1)

(***************************************************************************)
(* Filter strings.  A filter string is the sequence of the filters it      *)
(* names, in order ("crop_cuda=..,scale_cuda=.." is <<"crop_cuda",         *)
(* "scale_cuda">>); a filter list is a sequence of filter strings and      *)
(* ",".join of it is their concatenation.                                  *)
(***************************************************************************)
RECURSIVE join(_)
join(fs) == IF fs = <<>> THEN <<>> ELSE Head(fs) \o join(Tail(fs))

\* The keywords probed by requires_cpu_filters that occur in the text of one
\* filter as the builders write it.
KeywordsIn(name) ==
    CASE name = "setpts"         -> {"setpts"}
      [] name = "subtitles"      -> {"subtitles"}
      [] name = "drawtext"       -> {"drawtext", "color"}
      [] name = "scale"          -> {"scale="}
      [] name = "setsar"         -> {"setsar"}
      [] name = "crop_cuda"      -> {"_cuda"}
      [] name = "scale_cuda"     -> {"_cuda"}
      [] name = "scale_npp"      -> {"_npp"}
      [] name = "format=cuda"    -> {"format=", "format=cuda"}
      [] name = "format=nv12"    -> {"format=", "format=nv12"}
      [] name = "format=yuv420p" -> {"format="}
      [] OTHER                   -> {}

\* kw in f, for a filter string f
in(kw, f) == \E k \in DOMAIN f : kw \in KeywordsIn(f[k])

(***************************************************************************)
(* effects/speed.py, effects/zoom.py, effects/caption.py,                  *)
(* effects/registry.py                                                     *)
(***************************************************************************)
\* The atempo stages for a speed of n/d: the stage ratios as <<num, den>>.
RECURSIVE atempo_stages(_, _)
atempo_stages(n, d) ==
    IF n > 2 * d THEN <<<<2, 1>>>> \o atempo_stages(n, 2 * d)
    ELSE IF 2 * n < d THEN <<<<1, 2>>>> \o atempo_stages(2 * n, d)
    ELSE IF n # d THEN <<<<n, d>>>>
    ELSE <<>>

build_speed_filters(speed_val, has_audio) ==
    <<<<"setpts">>, IF has_audio THEN atempo_stages(speed_val, ONE) ELSE <<>>>>

\* None is the empty filter string.
build_zoom_filter(edit) ==
    IF edit.zoom = ZOOM_NONE \/ edit.zoom <= ONE THEN <<>>
    ELSE <<"crop_cuda", "scale_cuda">>

build_subtitle_filter(subtitle) == <<"subtitles">>

get_segment_filters(seg, has_audio) ==
    LET edit == seg.edit
        speed == IF edit # None /\ edit.speed # ONE
                 THEN build_speed_filters(edit.speed, has_audio)
                 ELSE <<<<>>, <<>>>>
        zoom == IF edit # None /\ (edit.type = "zoom" \/ edit.zoom \notin {ZOOM_NONE, ONE})
                THEN build_zoom_filter(edit)
                ELSE <<>>
        RECURSIVE subs(_)
        subs(k) ==
            IF k > Len(seg.subtitles) THEN <<>>
            ELSE IF \E j \in 1 .. k - 1 : seg.subtitles[j] = seg.subtitles[k]
                 THEN subs(k + 1)
                 ELSE <<build_subtitle_filter(seg.subtitles[k])>> \o subs(k + 1)
        v_filters == (IF speed[1] # <<>> THEN <<speed[1]>> ELSE <<>>)
                         \o (IF zoom # <<>> THEN <<zoom>> ELSE <<>>)
                         \o subs(1)
    IN  <<v_filters, speed[2]>>

(***************************************************************************)
(* config.py                                                               *)
(***************************************************************************)
SMART_COPY_MODE == TRUE
FINAL_UP_COMPRESS == FALSE
USE_SCALE_CUDA == TRUE

(***************************************************************************)
(* processor/segment_renderer.py                                           *)
(***************************************************************************)
CPU_ONLY_FILTERS == {"drawtext", "subtitles", "eq", "curves", "color", "hue", "lut"}

requires_cpu_filters(video_filters, debug_overlay, watermark_path) ==
    \/ watermark_path # "None"
    \/ debug_overlay
    \/ \E k \in DOMAIN video_filters :
          LET f == video_filters[k]
          IN  \/ \E kw \in CPU_ONLY_FILTERS : in(kw, f)
              \/ in("scale=", f) /\ ~in("_cuda", f) /\ ~in("_npp", f)
              \/ in("crop=", f) /\ ~in("_cuda", f) /\ ~in("_npp", f)
              \/ in("format=", f) /\ ~in("format=cuda", f) /\ ~in("format=nv12", f)
              \/ in("setpts", f)
              \/ in("setsar", f)

\* A hybrid list that uploads its frames itself, before render_segment_smart
\* appends its own upload.
_build_gpu_filter_chain_uploading(seg, out_w, out_h, orig_w, orig_h, debug_overlay, reg_v) ==
    IF requires_cpu_filters(reg_v, debug_overlay, "None")
    THEN <<<<"format=nv12">>>> \o reg_v \o <<<<"format=yuv420p">>, <<"hwupload_cuda">>>>
    ELSE <<<<"format=cuda">>>> \o reg_v

_build_gpu_filter_chain(seg, out_w, out_h, orig_w, orig_h, debug_overlay, reg_v) ==
    LET needs_cpu == requires_cpu_filters(reg_v, debug_overlay, "None")
        resized == out_w # orig_w \/ out_h # orig_h
        has_manual_scale == \E k \in DOMAIN reg_v : in("scale=", reg_v[k])
    IN  IF needs_cpu
        THEN <<<<"format=nv12">>>>
                 \o (IF resized /\ ~has_manual_scale THEN <<<<"scale">>>> ELSE <<>>)
                 \o reg_v
                 \o (IF debug_overlay THEN <<<<"drawtext">>>> ELSE <<>>)
                 \o <<<<"setsar">>, <<"format=yuv420p">>>>
        ELSE <<<<"format=cuda">>>>
                 \o (IF resized
                     THEN <<<<IF USE_SCALE_CUDA THEN "scale_cuda" ELSE "scale_npp">>>>
                     ELSE <<>>)
                 \o reg_v

\* One external ffmpeg invocation: the decoder output format, the filters on
\* the main video stream in order, the audio stages and the video encoder.
Invocation(kind, i, fmt, video, audio, encoder) ==
    [kind |-> kind, seg_idx |-> i, hwaccel_output_format |-> fmt, video |-> video,
     audio |-> audio, encoder |-> encoder, exit |-> "running"]

\* The smart-copy command (lines 39-50).
copy_invocation(i) == Invocation("copy", i, "none", <<>>, <<>>, "copy")

\* The hardware command (lines 61-195).
hw_invocation(i, seg, debug_overlay, has_audio, orig_w, orig_h, out_w, out_h, is_paid, wm) ==
    LET reg == get_segment_filters(seg, has_audio)
        apply_wm == ~is_paid /\ wm # "None" /\ ~FINAL_UP_COMPRESS
        needs_cpu == requires_cpu_filters(reg[1], debug_overlay,
                                          IF apply_wm THEN wm ELSE "None")
        v_chain == join(_build_gpu_filter_chain(seg, out_w, out_h, orig_w, orig_h,
                                                debug_overlay, reg[1]))
        v_final == IF needs_cpu
                   THEN IF apply_wm THEN v_chain \o <<"overlay", "hwupload_cuda">>
                        ELSE v_chain \o <<"hwupload_cuda">>
                   ELSE IF apply_wm THEN v_chain \o <<"overlay_cuda">>
                        ELSE v_chain
    IN  Invocation("hw", i, IF needs_cpu THEN "nv12" ELSE "cuda", v_final,
                   IF has_audio THEN reg[2] ELSE <<>>, "h264_nvenc")

\* The filter list of _render_cpu_fallback (lines 348-363).
cpu_filters(i, seg, debug_overlay, has_audio, orig_w, orig_h, out_w, out_h) ==
    (IF out_w # orig_w \/ out_h # orig_h THEN <<<<"scale">>>> ELSE <<>>)
        \o get_segment_filters(seg, has_audio)[1]
        \o (IF debug_overlay THEN <<<<"drawtext">>>> ELSE <<>>)
        \o <<<<"setsar">>, <<"format=yuv420p">>>>

\* The names segment_renderer.py uses in _render_cpu_fallback without importing
\* them from config (lines 2-8 against lines 375-376).
UnboundNames == {"ENCODING_PRESET", "CRF_QUALITY"}

\* _render_cpu_fallback(args, temp_out) up to its run_ffmpeg call: the
\* exception it raises ("" when none) and the command it then runs.  The
\* tuple assignment of lines 342-343 takes exactly 11 values.
_render_cpu_fallback(a) ==
    IF Len(a) # 11
    THEN [error |-> "ValueError", cmd |-> <<>>]
    ELSE IF UnboundNames # {}
    THEN [error |-> "NameError", cmd |-> <<>>]
    ELSE [error |-> "",
          cmd |-> <<Invocation("cpu", a[1], "none",
                               join(cpu_filters(a[1], a[2], a[6], a[7], a[8], a[9],
                                                a[10], a[11])),
                               IF a[7] THEN get_segment_filters(a[2], a[7])[2]
                               ELSE <<>>,
                               "libx264")>>]

\* utils/gpu.py: check_gpu_support() and the cache it leaves.
check_gpu_support == IF gpu_cache # "None" THEN gpu_cache = "True" ELSE gpu_hw

\* A check that does not store what its probe found.
cache_after_uncached_check == gpu_cache

cache_after_check ==
    IF gpu_cache # "None" THEN gpu_cache ELSE IF gpu_hw THEN "True" ELSE "False"

\* Lines 21-24: a call starts the probe only when no value is cached.
probes_after_check == IF gpu_cache # "None" THEN probes ELSE probes + 1

\* final_renderer.py lines 65-69: the tuple handed to render_segment_smart.
render_args(i, seg, debug_overlay, has_audio, orig, render, is_paid, watermark_path) ==
    <<i, seg, "input.mp4", "temp_spliceo_v2", "fps", debug_overlay, has_audio,
      orig[1], orig[2], render[1], render[2], is_paid, watermark_path>>

\* No render in progress.
RenderIdle ==
    /\ args = <<>>
    /\ gpu_hw = FALSE
    /\ gpu_cache = "None"
    /\ probes = 0
    /\ invocations = <<>>
    /\ result = "none"
    /\ error = ""

\* No render submitted, nothing on disk, no answer yet.
PoolIdle ==
    /\ futures = <<>>
    /\ segment_files = <<>>
    /\ failed_segments = <<>>
    /\ concat_list = <<>>
    /\ input_exists = TRUE
    /\ temp_exists = FALSE
    /\ response = [pending |-> TRUE]
    /\ calls = <<>>
    /\ procs = <<>>
    /\ clock = "within"

\* Called without a job.
NoJob == [input |-> "None"]

\* No job in progress.
JobIdle == PoolIdle /\ job = NoJob

(***************************************************************************)
(* Inputs of the timeline builder                                          *)
(***************************************************************************)
SeqsUpTo(S, n) == UNION {[1 .. k -> S] : k \in 0 .. n}

\* Edits as parse_edit_map produces them (end > start; an edit may start before
\* 0 or end after total_duration): a cut, or a zoom of factor 1.5.
TimelineEdits ==
    {ed \in {Edit(ty, s, e, ONE, IF ty = "cut" THEN ZOOM_NONE ELSE 15) :
                ty \in {"cut", "zoom"}, s \in Times, e \in Times} :
        ed.start < ed.end}

InitTimeline ==
    /\ pc = "input"
    /\ edits \in SeqsUpTo(TimelineEdits, MaxEdits)
    /\ subtitles = <<>>
    /\ total_duration \in Durations
    /\ orig_res = <<1920, 1080>>
    /\ out_res = <<1920, 1080>>
    /\ DEBUG_OVERLAY = FALSE
    /\ ENABLE_COLOR_GRADING = FALSE
    /\ segments = <<>>
    /\ RenderIdle
    /\ JobIdle

\* segments = create_segments(edits, subtitles, total_duration, ...)
CreateSegments ==
    /\ pc = "input"
    /\ segments' = create_segments(edits, subtitles, total_duration,
                                   orig_res[1], orig_res[2], out_res[1], out_res[2],
                                   DEBUG_OVERLAY, ENABLE_COLOR_GRADING)
    /\ pc' = "segmented"
    /\ UNCHANGED <<pvars, edits, subtitles, total_duration, orig_res, out_res,
                   DEBUG_OVERLAY, ENABLE_COLOR_GRADING, rvars, jvars>>

NextTimeline == CreateSegments

SpecTimeline == InitTimeline /\ [][NextTimeline]_vars

(***************************************************************************)
(* Claims about the timeline builder                                       *)
(***************************************************************************)
RECURSIVE SumDurations(_)
SumDurations(segs) ==
    IF segs = <<>> THEN 0 ELSE duration(Head(segs)) + SumDurations(Tail(segs))

\* Unit cells [c, c+1) of [0, total) covered by a cut-kind edit.
CutCells(es, total) ==
    {c \in 0 .. total - 1 :
        \E k \in DOMAIN es :
            es[k].type = "cut" /\ es[k].start <= c /\ c + 1 <= es[k].end}

\* The boundary instants of the timeline: 0, total and the clamped edit ends.
BoundaryInstants(es, total) ==
    {0, total} \cup {Max(0, Min(es[k].start, total)) : k \in DOMAIN es}
               \cup {Max(0, Min(es[k].end, total)) : k \in DOMAIN es}

\* Unit cells lying in a sub-interval between two adjacent boundary instants
\* that is shorter than EPS.
SliverCells(es, total) ==
    {c \in 0 .. total - 1 :
        LET B == BoundaryInstants(es, total)
            lo == CHOOSE x \in B : x <= c /\ \A y \in B : y <= c => y <= x
            hi == CHOOSE x \in B : x >= c + 1 /\ \A y \in B : y >= c + 1 => x <= y
        IN  hi - lo < EPS}

Abs(x) == IF x < 0 THEN -x ELSE x

GapCells(segs, i) == segs[i].end .. segs[i + 1].start - 1

\* C1 as stated: the kept duration is totalDuration minus the cut length within
\* EPS, and consecutive segments not separated by a cut share their boundary.
C1_Original ==
    pc = "segmented" =>
        /\ Abs(SumDurations(segments)
               - (total_duration - Cardinality(CutCells(edits, total_duration)))) <= EPS
        /\ \A i \in 1 .. Len(segments) - 1 :
               segments[i].end # segments[i + 1].start =>
                   \E c \in GapCells(segments, i) : c \in CutCells(edits, total_duration)

\* C1 amended: the kept duration is totalDuration minus the cut length minus the
\* length of the non-cut boundary sub-intervals shorter than EPS, which are
\* dropped; between consecutive segments there is nothing but cut ranges and
\* such dropped sub-intervals.
C1_Coverage ==
    pc = "segmented" =>
        LET removed == CutCells(edits, total_duration)
                           \cup SliverCells(edits, total_duration)
        IN  /\ SumDurations(segments) = total_duration - Cardinality(removed)
            /\ \A i \in 1 .. Len(segments) - 1 :
                   \A c \in GapCells(segments, i) : c \in removed

C1_Witness ==
    /\ pc = "segmented"
    /\ Len(segments) >= 2
    /\ CutCells(edits, total_duration) # {}
    /\ SliverCells(edits, total_duration) \ CutCells(edits, total_duration) # {}
    /\ \E i \in 1 .. Len(segments) - 1 : segments[i].end = segments[i + 1].start

\* C2: the returned list is sorted by strictly increasing start, consecutive
\* segments do not overlap, and every segment has a positive duration.
C2_SortedDisjointPositive ==
    pc = "segmented" =>
        /\ \A i \in 1 .. Len(segments) : duration(segments[i]) > 0
        /\ \A i \in 1 .. Len(segments) - 1 :
               /\ segments[i].start < segments[i + 1].start
               /\ segments[i].end <= segments[i + 1].start
        /\ \A i, j \in 1 .. Len(segments) :
               i < j => segments[i].end <= segments[j].start

C2_Witness ==
    /\ pc = "segmented"
    /\ Len(segments) >= 3

\* C3: no emitted segment intersects the interval of a cut-kind edit, also
\* where the cut overlaps a non-cut edit.
C3_NoSegmentInCut ==
    pc = "segmented" =>
        \A i \in 1 .. Len(segments) : \A k \in 1 .. Len(edits) :
            edits[k].type = "cut" =>
                segments[i].end <= edits[k].start \/ segments[i].start >= edits[k].end

C3_Witness ==
    /\ pc = "segmented"
    /\ Len(segments) >= 2
    /\ \E k, j \in 1 .. Len(edits) :
          /\ edits[k].type = "cut" /\ edits[j].type # "cut"
          /\ edits[j].start < edits[k].start /\ edits[k].start < edits[j].end
          /\ edits[j].end < edits[k].end
          /\ \E i \in 1 .. Len(segments) : segments[i].edit = edits[j]

(***************************************************************************)
(* Inputs of the segment classifier                                        *)
(***************************************************************************)
\* config.RESOLUTION_PRESETS, the two presets used here
RESOLUTION_PRESETS(name) ==
    IF name = "1080p" THEN <<1920, 1080>> ELSE <<1280, 720>>

\* utils/video.py
get_output_resolution(original, requested_res) ==
    IF requested_res = "original" \/ requested_res \notin {"1080p", "720p"}
    THEN original
    ELSE RESOLUTION_PRESETS(requested_res)

ClassifyTimes == {0, EPS, MaxTime}

\* Edits with every combination of kind, speed (1.0, 2.0) and zoom
\* ("none", 1.0, 1.5) on a coarse time grid.
ClassifyEdits ==
    {ed \in [type : {"cut", "zoom"}, start : ClassifyTimes, end : ClassifyTimes,
             speed : {ONE, 20}, zoom : {ZOOM_NONE, ONE, 15}] : ed.start < ed.end}

ClassifySubtitles ==
    {sub \in [text : {"a"}, start : ClassifyTimes, end : ClassifyTimes] :
        sub.start < sub.end}

InitClassify ==
    /\ pc = "input"
    /\ edits \in SeqsUpTo(ClassifyEdits, MaxEdits - 1)  \* one edit decides a segment
    /\ subtitles \in SeqsUpTo(ClassifySubtitles, MaxSubs)
    /\ total_duration = MaxTime
    /\ orig_res \in {<<1920, 1080>>, <<1920, 720>>}
    /\ out_res \in {get_output_resolution(orig_res, r) :
                       r \in {"original", "1080p", "720p"}}
    /\ DEBUG_OVERLAY \in BOOLEAN
    /\ ENABLE_COLOR_GRADING \in BOOLEAN
    /\ segments = <<>>
    /\ RenderIdle
    /\ JobIdle

SpecClassify == InitClassify /\ [][NextTimeline]_vars

\* The positions of the non-cut edits whose interval overlaps (a, b).
NonCutOverlapping(a, b) ==
    {k \in DOMAIN edits :
        edits[k].type # "cut" /\ ~(b <= edits[k].start \/ a >= edits[k].end)}

\* C28: the edit attached to an emitted segment [a, b) is the first edit of
\* the input list among the non-cut edits overlapping (a, b), and None exactly
\* when there is none; is_original holds exactly when it is None; a segment
\* with an edit lies inside the edit's interval.
C28_FirstOverlappingEdit ==
    pc = "segmented" =>
        \A i \in DOMAIN segments :
            LET seg == segments[i]
                hits == NonCutOverlapping(seg.start, seg.end)
            IN  /\ seg.edit = None <=> hits = {}
                /\ seg.is_original <=> seg.edit = None
                /\ hits # {} =>
                      /\ \E k \in hits : seg.edit = edits[k] /\ \A j \in hits : k <= j
                      /\ seg.edit.start <= seg.start
                      /\ seg.end <= seg.edit.end

\* A segment that two different non-cut edits overlap, with the first one
\* attached.
C28_Witness ==
    /\ pc = "segmented"
    /\ \E i \in DOMAIN segments :
          /\ Cardinality(NonCutOverlapping(segments[i].start, segments[i].end)) = 2
          /\ edits[1] # edits[2]
          /\ segments[i].edit = edits[1]

(***************************************************************************)
(* Claims about the segment classifier                                     *)
(***************************************************************************)
\* C4: can_copy is true exactly when the segment has no edit, has no
\* subtitles, the debug overlay is off, the output size equals the original
\* size and color grading is off; and can_copy implies not needs_processing.
C4_CanCopyIff ==
    pc = "segmented" =>
        \A i \in 1 .. Len(segments) :
            /\ segments[i].can_copy <=>
                   (/\ segments[i].edit = None
                    /\ Len(segments[i].subtitles) = 0
                    /\ ~DEBUG_OVERLAY
                    /\ out_res[1] = orig_res[1] /\ out_res[2] = orig_res[2]
                    /\ ~ENABLE_COLOR_GRADING)
            /\ segments[i].can_copy => ~segments[i].needs_processing

C4_Witness ==
    /\ pc = "segmented"
    /\ \E i, j \in 1 .. Len(segments) :
          /\ segments[i].can_copy /\ ~segments[i].needs_processing
          /\ ~segments[j].can_copy /\ segments[j].edit # None
          /\ segments[j].edit.speed = ONE /\ segments[j].edit.zoom = ONE

\* C5: a segment whose edit has speed # 1.0 or a zoom other than "none"/1.0
\* has needs_processing true and can_copy false, whatever the other inputs.
C5_EditForcesProcessing ==
    pc = "segmented" =>
        \A i \in 1 .. Len(segments) :
            (/\ segments[i].edit # None
             /\ (segments[i].edit.speed # ONE
                    \/ segments[i].edit.zoom \notin {ZOOM_NONE, ONE}))
                => segments[i].needs_processing /\ ~segments[i].can_copy

C5_Witness ==
    /\ pc = "segmented"
    /\ out_res = orig_res /\ ~DEBUG_OVERLAY /\ ~ENABLE_COLOR_GRADING
    /\ \E i \in 1 .. Len(segments) :
          /\ segments[i].edit # None
          /\ segments[i].edit.speed # ONE
          /\ segments[i].edit.zoom = ZOOM_NONE
          /\ Len(segments[i].subtitles) = 0
          /\ segments[i].needs_processing

(***************************************************************************)
(* processor.segment_renderer.render_segment_smart, one segment            *)
(***************************************************************************)
\* render_segment_smart with the hardware probe consulted before the copy
\* test, so that only a machine with a usable GPU copies.
render_begin_probe_first(a) ==
    IF ~check_gpu_support
    THEN LET r == _render_cpu_fallback(a)
         IN  [pc |-> IF r.error # "" THEN "done" ELSE "encoding_cpu",
              cmd |-> r.cmd, error |-> r.error, probed |-> TRUE]
    ELSE IF a[2].can_copy /\ SMART_COPY_MODE
    THEN [pc |-> "copying", cmd |-> <<copy_invocation(a[1])>>, error |-> "",
          probed |-> TRUE]
    ELSE [pc |-> "encoding_hw",
          cmd |-> <<hw_invocation(a[1], a[2], a[6], a[7], a[8], a[9], a[10], a[11],
                                  a[12], a[13])>>,
          error |-> "", probed |-> TRUE]

\* render_segment_smart(args) up to its first external invocation.
render_begin(a) ==
    LET i == a[1]
        seg == a[2]
    IN  IF seg.can_copy /\ SMART_COPY_MODE
        THEN [pc |-> "copying", cmd |-> <<copy_invocation(i)>>, error |-> "",
              probed |-> FALSE]
        ELSE IF ~check_gpu_support
        THEN LET r == _render_cpu_fallback(a)
             IN  [pc |-> IF r.error # "" THEN "done" ELSE "encoding_cpu",
                  cmd |-> r.cmd, error |-> r.error, probed |-> TRUE]
        ELSE [pc |-> "encoding_hw",
              cmd |-> <<hw_invocation(i, seg, a[6], a[7], a[8], a[9], a[10], a[11],
                                      a[12], a[13])>>,
              error |-> "", probed |-> TRUE]

\* utils/ffmpeg.py run_ffmpeg: returns on exit code 0, raises RuntimeError on a
\* non-zero exit code and on a timeout.
run_ffmpeg_raises(exit) == exit # "0"

ExitCodes == {"0", "nonzero", "timeout"}

RenderSubtitles == {Subtitle(t, 0, MaxTime) : t \in {"a", "b"}}

RenderEdits ==
    {Edit(ty, 0, MaxTime, sp, z) :
        ty \in {"zoom", "speed"}, sp \in {ONE, 20}, z \in {ZOOM_NONE, ONE, 15}}

InitRender ==
    /\ pc = "start"
    /\ edits \in SeqsUpTo(RenderEdits, MaxEdits - 1)  \* one edit decides a segment
    /\ subtitles \in SeqsUpTo(RenderSubtitles, MaxSubs)
    /\ total_duration = MaxTime
    /\ orig_res \in {<<1920, 1080>>, <<1920, 720>>}
    /\ out_res \in {get_output_resolution(orig_res, r) :
                       r \in {"original", "1080p", "720p"}}
    /\ DEBUG_OVERLAY \in BOOLEAN
    /\ ENABLE_COLOR_GRADING = FALSE
    /\ segments = create_segments(edits, subtitles, total_duration,
                                  orig_res[1], orig_res[2], out_res[1], out_res[2],
                                  DEBUG_OVERLAY, ENABLE_COLOR_GRADING)
    /\ gpu_hw \in BOOLEAN
    /\ gpu_cache \in {"None", IF gpu_hw THEN "True" ELSE "False"}
    /\ probes = 0
    /\ \E i \in 1 .. Len(segments), has_audio \in BOOLEAN, is_paid \in BOOLEAN,
          WATERMARK_URL \in BOOLEAN :
          args = render_args(i - 1, segments[i], DEBUG_OVERLAY, has_audio, orig_res,
                             IF FINAL_UP_COMPRESS THEN orig_res ELSE out_res, is_paid,
                             IF ~is_paid /\ WATERMARK_URL THEN "wm.png" ELSE "None")
    /\ invocations = <<>>
    /\ result = "none"
    /\ error = ""
    /\ JobIdle

\* render_segment_smart from its entry to its first run_ffmpeg call, or to the
\* exception raised before one.
RenderBegin ==
    /\ pc = "start"
    /\ LET r == render_begin(args)
       IN  /\ pc' = r.pc
           /\ invocations' = invocations \o r.cmd
           /\ error' = r.error
           /\ result' = IF r.error # "" THEN "raised" ELSE "none"
           /\ gpu_cache' = IF r.probed THEN cache_after_check ELSE gpu_cache
           /\ probes' = IF r.probed THEN probes_after_check ELSE probes
    /\ UNCHANGED <<pvars, tvars, args, gpu_hw, jvars>>

\* The external process ends (or times out); run_ffmpeg returns or raises and
\* render_segment_smart returns temp_out or lets the exception through.
FfmpegExit ==
    /\ pc \in {"copying", "encoding_hw", "encoding_cpu"}
    /\ \E exit \in ExitCodes :
          /\ invocations' = [invocations EXCEPT ![Len(invocations)].exit = exit]
          /\ result' = IF run_ffmpeg_raises(exit) THEN "raised" ELSE "returned"
          /\ error' = IF run_ffmpeg_raises(exit) THEN "RuntimeError" ELSE ""
    /\ pc' = "done"
    /\ UNCHANGED <<pvars, tvars, args, gpu_hw, gpu_cache, probes, jvars>>

NextRender == RenderBegin \/ FfmpegExit

SpecRender == InitRender /\ [][NextRender]_vars

(***************************************************************************)
(* Claims about the segment renderer                                       *)
(***************************************************************************)
DeviceOnlyFilters == {"format=cuda", "scale_cuda", "scale_npp", "crop_cuda", "overlay_cuda"}

HostOnlyFilters == {"setpts", "subtitles", "drawtext", "scale", "setsar", "format=yuv420p"}

\* Following the frame domain through a chain: no device-only filter on host
\* frames, no host-only filter on device frames.
RECURSIVE DomainSafe(_, _)
DomainSafe(dom, chain) ==
    IF chain = <<>> THEN TRUE
    ELSE LET f == Head(chain)
         IN  /\ f \in DeviceOnlyFilters => dom = "device"
             /\ f \in HostOnlyFilters => dom = "host"
             /\ DomainSafe(IF f = "hwupload_cuda" THEN "device" ELSE dom, Tail(chain))

DecoderDomain(inv) == IF inv.hwaccel_output_format = "cuda" THEN "device" ELSE "host"

\* C6: on the hardware path every device-only filter is applied to
\* device-resident frames and every host-only filter to host-resident frames,
\* for every edit (zoom with speed, zoom with subtitle included).
C6_DomainSafe ==
    \A k \in DOMAIN invocations :
        invocations[k].kind = "hw" =>
            DomainSafe(DecoderDomain(invocations[k]), invocations[k].video)

\* C17: the hybrid-or-pure decision is one decision per segment: the decoder
\* output format and the final upload step agree with the filter list that
\* _build_gpu_filter_chain built, and an applied watermark gives the hybrid list.
C17_OneHybridDecision ==
    \A k \in DOMAIN invocations :
        invocations[k].kind = "hw" =>
            LET inv == invocations[k]
                hybrid_list == Head(inv.video) = "format=nv12"
                uploads == inv.video[Len(inv.video)] = "hwupload_cuda"
            IN  /\ inv.hwaccel_output_format = "nv12" <=> hybrid_list
                /\ uploads <=> hybrid_list
                /\ (\E j \in DOMAIN inv.video : inv.video[j] = "overlay") => hybrid_list

\* The positions of a step in a filter list.
StepsOf(video, name) == {j \in DOMAIN video : video[j] = name}

\* C24: a graph built on the hybrid path has exactly one upload-to-device step
\* on the main video stream, the last step before the encoder's input; a graph
\* built on the pure device path has no upload and no download step.
C24_OneUploadLast ==
    \A k \in DOMAIN invocations :
        invocations[k].kind = "hw" =>
            LET inv == invocations[k]
            IN  IF inv.hwaccel_output_format = "nv12"
                THEN StepsOf(inv.video, "hwupload_cuda") = {Len(inv.video)}
                ELSE /\ StepsOf(inv.video, "hwupload_cuda") = {}
                     /\ StepsOf(inv.video, "hwdownload") = {}

\* A hybrid graph with a subtitle burn-in and the watermark overlay before its
\* upload.
C24_Witness ==
    /\ invocations # <<>>
    /\ invocations[1].kind = "hw"
    /\ invocations[1].hwaccel_output_format = "nv12"
    /\ StepsOf(invocations[1].video, "subtitles") # {}
    /\ StepsOf(invocations[1].video, "overlay") # {}

\* The place of a step in the fixed order of a chain; the rescale that ends a
\* zoom (scale_cuda right after crop_cuda) belongs to the zoom, the watermark
\* overlay sits between the exit normalization and the upload.
StepRank(video, j) ==
    LET f == video[j]
    IN  CASE f \in {"format=nv12", "format=cuda"} -> 1
          [] f \in {"scale", "scale_npp"} -> 2
          [] f = "scale_cuda" -> IF j > 1 /\ video[j - 1] = "crop_cuda" THEN 4 ELSE 2
          [] f = "setpts" -> 3
          [] f = "crop_cuda" -> 4
          [] f = "subtitles" -> 5
          [] f = "drawtext" -> 6
          [] f = "setsar" -> 7
          [] f = "format=yuv420p" -> 8
          [] f \in {"overlay", "overlay_cuda"} -> 9
          [] OTHER -> 10

\* The steps of a list that scale the frames to the output resolution.
OutputScales(video) ==
    {j \in DOMAIN video : video[j] \in {"scale", "scale_cuda", "scale_npp"}}

\* C26: in every video filter list the steps present follow the fixed order
\* (entry format, resolution scale, setpts, zoom, subtitle burn-ins, debug
\* overlay, setsar, pixel format, upload), and the list scales to the output
\* resolution at most once.
C26_FixedOrderOneScale ==
    \A k \in DOMAIN invocations :
        LET video == invocations[k].video
        IN  /\ \A j \in 1 .. Len(video) - 1 : StepRank(video, j) <= StepRank(video, j + 1)
            /\ Cardinality(OutputScales(video)) <= 1

\* C7: when the probe reports usable and the hardware invocation exits
\* non-zero, the segment is rendered again with the CPU-only plan, and it is
\* reported failed only if that CPU attempt fails too.
C7_HwFailureRetriedOnCpu ==
    pc = "done" =>
        \A k \in DOMAIN invocations :
            (invocations[k].kind = "hw" /\ invocations[k].exit = "nonzero") =>
                \E j \in DOMAIN invocations :
                    /\ j > k
                    /\ invocations[j].kind = "cpu"
                    /\ invocations[j].seg_idx = invocations[k].seg_idx
                    /\ result = "raised" => invocations[j].exit # "0"

\* C8: when the probe reports unusable and the segment is not copy-eligible,
\* the segment is rendered by exactly one libx264 invocation, no hardware
\* invocation is attempted, and a zero exit code returns the output path.
C8_CpuPathWhenNoGpu ==
    (pc = "done" /\ gpu_cache = "False" /\ ~(args[2].can_copy /\ SMART_COPY_MODE)) =>
        /\ Len(invocations) = 1
        /\ invocations[1].kind = "cpu"
        /\ invocations[1].encoder = "libx264"
        /\ invocations[1].exit = "0" => result = "returned"

(***************************************************************************)
(* processor.final_renderer.render_final_video                             *)
(***************************************************************************)
MAX_PARALLEL_SEGMENTS == 2

\* The concat command (final_renderer.py lines 112-121).
concat_invocation == Invocation("concat", -1, "none", <<>>, <<>>, "copy")

\* Positions of the futures in the given states.
InState(S) == {i \in DOMAIN futures : futures[i] \in S}

\* The list in descending order of position: what a sort must not produce.
reverse_order(l) == [k \in DOMAIN l |-> l[Len(l) + 1 - k]]

\* The invocations made for the segment at position i.
InvocationsOf(invs, i) == {k \in DOMAIN invs : invs[k].seg_idx = i - 1}

\* list.sort(key=lambda x: x[0]) on a list of indices.
RECURSIVE sort_by_index(_)
sort_by_index(l) ==
    IF l = <<>> THEN <<>>
    ELSE LET m == CHOOSE x \in {l[k] : k \in DOMAIN l} :
                      \A y \in {l[k] : k \in DOMAIN l} : x <= y
             k == CHOOSE k \in DOMAIN l : l[k] = m /\ \A j \in 1 .. k - 1 : l[j] # m
         IN  <<m>> \o sort_by_index(SubSeq(l, 1, k - 1) \o SubSeq(l, k + 1, Len(l)))

\* Speed edits on a grid of two time units, as parse_edit_map produces them.
JobEdits == {Edit("speed", a, a + 2, 20, ZOOM_NONE) : a \in {0, 2, 4}}

InitFinal ==
    /\ pc = "start"
    /\ edits \in SeqsUpTo(JobEdits, MaxEdits)
    /\ subtitles = <<>>
    /\ total_duration = MaxTime
    /\ orig_res = <<1920, 1080>>
    /\ out_res \in {get_output_resolution(orig_res, r) : r \in {"original", "720p"}}
    /\ DEBUG_OVERLAY = FALSE
    /\ ENABLE_COLOR_GRADING = FALSE
    /\ segments = create_segments(edits, subtitles, total_duration,
                                  orig_res[1], orig_res[2], out_res[1], out_res[2],
                                  DEBUG_OVERLAY, ENABLE_COLOR_GRADING)
    /\ args = <<>>
    /\ gpu_hw \in BOOLEAN
    /\ gpu_cache = "None"
    /\ probes = 0
    /\ invocations = <<>>
    /\ result = "none"
    /\ error = ""
    /\ JobIdle

\* Lines 26-81: make the temporary directory, probe the hardware, download the
\* watermark, build render_args and hand every tuple to the thread pool.
\* Here args is the list render_args and result is what render_final_video does.
FinalBegin ==
    /\ pc = "start"
    /\ temp_exists' = TRUE
    /\ gpu_cache' = cache_after_check
    /\ probes' = probes_after_check
    /\ \E has_audio \in BOOLEAN, is_paid \in BOOLEAN, downloaded \in BOOLEAN :
          args' = [i \in DOMAIN segments |->
                      render_args(i - 1, segments[i], DEBUG_OVERLAY, has_audio, orig_res,
                                  IF FINAL_UP_COMPRESS THEN orig_res ELSE out_res, is_paid,
                                  IF ~is_paid /\ downloaded THEN "wm.png" ELSE "None")]
    /\ futures' = [i \in DOMAIN segments |-> "queued"]
    /\ pc' = "mapping"
    /\ UNCHANGED <<pvars, tvars, gpu_hw, invocations, result, error, segment_files,
                   failed_segments, concat_list, input_exists, response>>

\* Lines 26-45: the temporary directory is made and the hardware probed, then
\* get_video_info raises its RuntimeError (ffprobe fails on the input); the
\* call is made before the try statement, so no finally block runs.
VideoInfoRaises ==
    /\ pc = "start"
    /\ temp_exists' = TRUE
    /\ gpu_cache' = cache_after_check
    /\ probes' = probes_after_check
    /\ result' = "raised"
    /\ error' = "RuntimeError"
    /\ pc' = "done"
    /\ UNCHANGED <<pvars, tvars, args, gpu_hw, invocations, futures, segment_files,
                   failed_segments, concat_list, input_exists, response>>

\* A pool that starts a thread for every submitted tuple, whatever max_workers.
WorkerStartUnbounded(i) ==
    /\ pc = "mapping"
    /\ futures[i] = "queued"
    /\ LET r == render_begin(args[i])
       IN  /\ futures' = [futures EXCEPT ![i] = IF r.error # "" THEN "raised" ELSE "running"]
           /\ invocations' = invocations \o r.cmd
           /\ gpu_cache' = IF r.probed THEN cache_after_check ELSE gpu_cache
           /\ probes' = IF r.probed THEN probes_after_check ELSE probes
    /\ UNCHANGED <<pvars, pc, tvars, args, gpu_hw, result, error, segment_files,
                   failed_segments, concat_list, input_exists, temp_exists, response>>

\* A pool thread takes the next queued tuple and runs render_segment_smart up
\* to its first run_ffmpeg call, or to the exception raised before one.
WorkerStart(i) ==
    /\ pc = "mapping"
    /\ futures[i] = "queued"
    /\ \A j \in 1 .. i - 1 : futures[j] # "queued"
    /\ Cardinality(InState({"running"})) < MAX_PARALLEL_SEGMENTS
    /\ LET r == render_begin(args[i])
       IN  /\ futures' = [futures EXCEPT ![i] = IF r.error # "" THEN "raised" ELSE "running"]
           /\ invocations' = invocations \o r.cmd
           /\ gpu_cache' = IF r.probed THEN cache_after_check ELSE gpu_cache
           /\ probes' = IF r.probed THEN probes_after_check ELSE probes
    /\ UNCHANGED <<pvars, pc, tvars, args, gpu_hw, result, error, segment_files,
                   failed_segments, concat_list, input_exists, temp_exists, response>>

\* The ffmpeg process of a running render ends; render_segment_smart returns
\* the segment file or lets run_ffmpeg's exception through.
WorkerExit(i) ==
    /\ pc \in {"mapping", "shutdown"}
    /\ futures[i] = "running"
    /\ \E exit \in ExitCodes :
          LET k == CHOOSE k \in DOMAIN invocations :
                       invocations[k].seg_idx = i - 1 /\ invocations[k].exit = "running"
          IN  /\ invocations' = [invocations EXCEPT ![k].exit = exit]
              /\ futures' = [futures EXCEPT
                                ![i] = IF run_ffmpeg_raises(exit) THEN "raised"
                                       ELSE "returned"]
    /\ UNCHANGED <<pvars, pc, tvars, args, gpu_hw, gpu_cache, probes, result, error, segment_files,
                   failed_segments, concat_list, input_exists, temp_exists, response>>

\* Lines 81-123: list(executor.map(...)) has yielded every result; the input
\* video is deleted, the list is sorted and written, and the concat runs.
MapReturns ==
    /\ pc = "mapping"
    /\ InState({"returned"}) = DOMAIN futures
    /\ segment_files' = [i \in DOMAIN futures |-> i - 1]
    /\ input_exists' = FALSE
    /\ concat_list' = sort_by_index(segment_files')
    /\ invocations' = Append(invocations, concat_invocation)
    /\ pc' = "concat"
    /\ UNCHANGED <<pvars, tvars, args, gpu_hw, gpu_cache, probes, result, error, futures,
                   failed_segments, temp_exists, response>>

\* Line 81: the result iterator reaches, in submission order, a future that
\* raised; the exception leaves list(...), the futures not yet started are
\* cancelled and the pool is shut down.
MapRaises ==
    /\ pc = "mapping"
    /\ \E k \in DOMAIN futures :
          /\ futures[k] = "raised"
          /\ \A j \in 1 .. k - 1 : futures[j] = "returned"
    /\ futures' = [i \in DOMAIN futures |->
                      IF futures[i] = "queued" THEN "cancelled" ELSE futures[i]]
    /\ pc' = "shutdown"
    /\ UNCHANGED <<pvars, tvars, args, gpu_hw, gpu_cache, probes, invocations, result, error,
                   segment_files, failed_segments, concat_list, input_exists,
                   temp_exists, response>>

\* Lines 148-158: the pool has no running render left; the exception is
\* re-raised and the finally block removes the temporary directory.
ShutdownDone ==
    /\ pc = "shutdown"
    /\ InState({"running"}) = {}
    /\ result' = "raised"
    /\ error' = "RuntimeError"
    /\ temp_exists' = FALSE
    /\ pc' = "done"
    /\ UNCHANGED <<pvars, tvars, args, gpu_hw, gpu_cache, probes, invocations, futures, segment_files,
                   failed_segments, concat_list, input_exists, response>>

\* Lines 123-158: the concat process ends; render_final_video returns, or
\* re-raises run_ffmpeg's exception; the temporary directory is removed.
ConcatExit ==
    /\ pc = "concat"
    /\ \E exit \in ExitCodes :
          /\ invocations' = [invocations EXCEPT ![Len(invocations)].exit = exit]
          /\ result' = IF run_ffmpeg_raises(exit) THEN "raised" ELSE "returned"
          /\ error' = IF run_ffmpeg_raises(exit) THEN "RuntimeError" ELSE ""
    /\ temp_exists' = FALSE
    /\ pc' = "done"
    /\ UNCHANGED <<pvars, tvars, args, gpu_hw, gpu_cache, probes, futures, segment_files,
                   failed_segments, concat_list, input_exists, response>>

NextFinal ==
    \/ FinalBegin
    \/ VideoInfoRaises
    \/ \E i \in DOMAIN futures : WorkerStart(i)
    \/ \E i \in DOMAIN futures : WorkerExit(i)
    \/ MapReturns
    \/ MapRaises
    \/ ShutdownDone
    \/ ConcatExit

SpecFinal == InitFinal /\ [][NextFinal]_vars

(***************************************************************************)
(* Claims about the final renderer                                         *)
(***************************************************************************)
\* The 0-based indices of the futures in the given states, ascending.
RECURSIVE IndicesIn(_, _)
IndicesIn(S, n) ==
    IF n = 0 THEN <<>>
    ELSE IndicesIn(S, n - 1) \o (IF futures[n] \in S THEN <<n - 1>> ELSE <<>>)

\* The segment invocations that are running.
InFlight == {k \in DOMAIN invocations :
                invocations[k].kind # "concat" /\ invocations[k].exit = "running"}

\* C16: during render_final_video at most MAX_PARALLEL_SEGMENTS segment
\* renders are in flight at the same time, and each worker runs at most one
\* external invocation at a time.
C16_BoundedParallelism ==
    /\ Cardinality(InFlight) <= MAX_PARALLEL_SEGMENTS
    /\ Cardinality(InState({"running"})) <= MAX_PARALLEL_SEGMENTS
    /\ \A k1 \in InFlight, k2 \in InFlight :
          invocations[k1].seg_idx = invocations[k2].seg_idx => k1 = k2
    /\ \A i \in InState({"running"}) :
          Cardinality(InFlight \cap InvocationsOf(invocations, i)) = 1

\* The pool is full: MAX_PARALLEL_SEGMENTS renders run and another waits.
C16_Witness ==
    /\ pc = "mapping"
    /\ Cardinality(InFlight) = MAX_PARALLEL_SEGMENTS
    /\ InState({"queued"}) # {}

\* C21: within one run of render_final_video the hardware probe is started at
\* most once; once the cached capability is set it never changes and no call
\* of check_gpu_support starts another probe; every worker's encoding attempt
\* follows the one cached value.
C21_ProbedOnce ==
    [][/\ probes' <= 1
       /\ gpu_cache # "None" => (gpu_cache' = gpu_cache /\ probes' = probes)
       /\ \A k \in DOMAIN invocations' :
             /\ invocations'[k].kind = "hw" => gpu_cache' = "True"
             /\ invocations'[k].kind = "cpu" => gpu_cache' = "False"]_vars

\* Two workers have asked check_gpu_support after the one probe of the run.
C21_Witness ==
    /\ probes = 1
    /\ Cardinality({k \in DOMAIN invocations : invocations[k].kind \in {"hw", "cpu"}}) >= 2
    /\ Cardinality(InState({"running"})) >= 2

\* C30: the input file is deleted only after every segment render has
\* returned and before the concat command is started; after the deletion no
\* segment render is running or started; the input file is left in place
\* when a segment render has raised; and when render_final_video has returned
\* or raised, the temporary segment directory is gone.
C30_InputDeletedAfterRendersTempRemoved ==
    [][ /\ (input_exists /\ ~input_exists') =>
              /\ InState({"returned"}) = DOMAIN futures
              /\ \A k \in DOMAIN invocations : invocations[k].kind # "concat"
        /\ ~input_exists =>
              /\ futures' = futures
              /\ \A k \in DOMAIN invocations' :
                    invocations'[k].kind # "concat" =>
                        k \in DOMAIN invocations /\ invocations'[k] = invocations[k]
        /\ ~input_exists' =>
              \A k \in DOMAIN invocations' :
                  invocations'[k].kind # "concat" => invocations'[k].exit # "running"
        /\ InState({"raised"})' # {} => input_exists'
        /\ pc' = "done" => ~temp_exists']_vars

\* C9: when some segment renders fail and at least one other succeeds,
\* render_final_video records and skips the failed segments and still runs the
\* concatenation over the segments that succeeded; the failure of a segment
\* does not abort the job.
C9_PartialFailureStillConcats ==
    (/\ pc = "done"
     /\ InState({"raised"}) # {}
     /\ InState({"returned"}) # {}) =>
        /\ \E k \in DOMAIN invocations : invocations[k].kind = "concat"
        /\ concat_list = IndicesIn({"returned"}, Len(futures))
        /\ {failed_segments[k] : k \in DOMAIN failed_segments}
              = {i - 1 : i \in InState({"raised"})}

(***************************************************************************)
(* handler.py: create_segments, render_segment_smart, render_final_video   *)
(* and handler                                                             *)
(***************************************************************************)
MAX_WORKERS == 4

\* The 0.01 s tolerance of handler.create_segments, in time units.
GAP == 10 * EPS

MAX_ORIGINAL_CHUNK == 300000 * EPS

\* edits.sort(key=lambda x: x.start): a stable sort by start.
RECURSIVE sort_by_start(_)
sort_by_start(es) ==
    IF es = <<>> THEN <<>>
    ELSE LET k == CHOOSE k \in DOMAIN es :
                      /\ \A j \in DOMAIN es : es[k].start <= es[j].start
                      /\ \A j \in 1 .. k - 1 : es[j].start # es[k].start
         IN  <<es[k]>> \o sort_by_start(SubSeq(es, 1, k - 1) \o SubSeq(es, k + 1, Len(es)))

\* A segment with the classification of handler.analyze_segment_processing,
\* which is analyzer.analyze_segment_processing over the module's own flags.
handler_segment(start, end, edit, subs, orig, out, debug, grading) ==
    LET seg == Segment(start, end, edit, edit = None, subs, TRUE, FALSE)
        a == analyze_segment_processing(seg, orig[1], orig[2], out[1], out[2],
                                        debug, grading)
    IN  [seg EXCEPT !.needs_processing = a[1], !.can_copy = a[2]]

\* add_original_segment: one original segment, or chunks of MAX_ORIGINAL_CHUNK.
RECURSIVE add_original_segment(_, _, _, _, _, _)
add_original_segment(start, end, orig, out, debug, grading) ==
    IF end - start <= MAX_ORIGINAL_CHUNK
    THEN <<handler_segment(start, end, None, <<>>, orig, out, debug, grading)>>
    ELSE <<handler_segment(start, start + MAX_ORIGINAL_CHUNK, None, <<>>, orig, out,
                           debug, grading)>>
         \o add_original_segment(start + MAX_ORIGINAL_CHUNK, end, orig, out, debug, grading)

handler_create_segments(es, subs, total, orig, out, debug, grading) ==
    IF es = <<>>
    THEN <<handler_segment(0, total, None, <<>>, orig, out, debug, grading)>>
    ELSE LET sorted_edits == sort_by_start(es)
             RECURSIVE loop(_, _)
             loop(k, current_time) ==
                 IF k > Len(sorted_edits)
                 THEN IF current_time < total - GAP
                      THEN add_original_segment(current_time, total, orig, out, debug, grading)
                      ELSE <<>>
                 ELSE LET edit == sorted_edits[k]
                          subs_in == SelectSeq(subs,
                                         LAMBDA sub : ~(sub.end <= edit.start
                                                        \/ sub.start >= edit.end))
                      IN  (IF edit.start > current_time + GAP
                           THEN add_original_segment(current_time, edit.start, orig, out,
                                                     debug, grading)
                           ELSE <<>>)
                          \o <<handler_segment(edit.start, edit.end, edit, subs_in, orig,
                                               out, debug, grading)>>
                          \o loop(k + 1, Max(current_time, edit.end))
         IN  loop(1, 0)

\* handler.py lines 843-847: the tuple handed to render_segment_smart.
handler_render_args(i, seg, debug_overlay, has_audio, orig, out) ==
    <<i, seg, "input_minecraft.mp4", "temp_spliceo_v2", "fps", debug_overlay, has_audio,
      orig[1], orig[2], out[1], out[2]>>

\* The first attempt of handler.render_segment_smart: codec copy, or an encode
\* on the hardware when the probe reports it usable, on the CPU otherwise.
handler_first_attempt(a) ==
    IF a[2].can_copy /\ SMART_COPY_MODE THEN "copy"
    ELSE IF check_gpu_support THEN "hw" ELSE "cpu"

\* The command of an attempt; its filter chains are not followed here.
handler_invocation(kind, i) ==
    Invocation(kind, i, "none", <<>>, <<>>,
               CASE kind = "copy" -> "copy"
                 [] kind = "hw" -> "h264_nvenc"
                 [] OTHER -> "libx264")

\* Speed edits of 50 ms on a 50 ms grid, and a subtitle over the first of them.
HandlerEdits == {Edit("speed", a * 50 * EPS, (a + 1) * 50 * EPS, 20, ZOOM_NONE) : a \in 0 .. 2}

\* processor/job_parser.py: the video_url of a job input, a value of some type;
\* job_input.get('video_url') of an input without the key is None.
Str(text) == [type |-> "str", text |-> text]
PyNone == [type |-> "NoneType", text |-> <<>>]
PyInt == [type |-> "int", text |-> <<>>]

startswith(text, prefix) ==
    Len(text) >= Len(prefix) /\ SubSeq(text, 1, Len(prefix)) = prefix

\* parse_job_input lines 17-18: the message of the ValueError raised for the
\* video_url, "" when it passes.
video_url_error(video_url) ==
    IF \/ video_url.type = "NoneType"
       \/ video_url.text = <<>>
       \/ video_url.type # "str"
       \/ ~startswith(video_url.text, <<"h", "t", "t", "p">>)
    THEN "Missing or invalid video_url (must be a valid HTTP URL)"
    ELSE ""

\* Jobs with a usable video_url, and with one that is missing, not a string,
\* or no HTTP URL.
ValidJobs == {[input |-> [video_url |-> Str(<<"h", "t", "t", "p", "s", ":", "/", "/", "v">>)]]}
InvalidJobs ==
    {[input |-> [video_url |-> v]] :
        v \in {PyNone, PyInt, Str(<<"n", "o", "t", "-", "a", "-", "u", "r", "l">>)}}

\* handler(job) after it has read the video and the edit map from disk, which
\* it does whatever the job is: no line of handler() reads job.
InitHandler ==
    /\ pc = "handler"
    /\ \/ /\ job \in ValidJobs
          /\ edits \in SeqsUpTo(HandlerEdits, MaxEdits - 1)
       \/ /\ job \in InvalidJobs
          /\ edits = <<>>
    /\ subtitles = <<>>
    /\ total_duration = 3 * 50 * EPS
    /\ orig_res \in {<<1920, 1080>>, <<1280, 720>>}
    /\ out_res = get_output_resolution(orig_res, "1080p")
    /\ DEBUG_OVERLAY = FALSE
    /\ ENABLE_COLOR_GRADING = FALSE
    /\ segments = handler_create_segments(edits, subtitles, total_duration, orig_res,
                                          out_res, DEBUG_OVERLAY, ENABLE_COLOR_GRADING)
    /\ args = <<>>
    /\ gpu_hw \in BOOLEAN
    /\ gpu_cache = "None"
    /\ probes = 0
    /\ invocations = <<>>
    /\ result = "none"
    /\ error = ""
    /\ PoolIdle

\* handler() lines 986-987 and render_final_video lines 814-855: probe the
\* hardware, build render_args and submit every tuple to the process pool.
HandlerBegin ==
    /\ pc = "handler"
    /\ temp_exists' = TRUE
    /\ gpu_cache' = cache_after_check
    /\ probes' = probes_after_check
    /\ \E has_audio \in BOOLEAN :
          args' = [i \in DOMAIN segments |->
                      handler_render_args(i - 1, segments[i], DEBUG_OVERLAY, has_audio,
                                          orig_res, out_res)]
    /\ futures' = [i \in DOMAIN segments |-> "queued"]
    /\ pc' = "collecting"
    /\ UNCHANGED <<pvars, tvars, gpu_hw, invocations, result, error, segment_files,
                   failed_segments, concat_list, input_exists, response>>

\* A pool process takes the next submitted tuple and starts its first attempt.
HandlerWorkerStart(i) ==
    /\ pc = "collecting"
    /\ futures[i] = "queued"
    /\ \A j \in 1 .. i - 1 : futures[j] # "queued"
    /\ Cardinality(InState({"copy", "hw", "cpu"})) < MAX_WORKERS
    /\ LET kind == handler_first_attempt(args[i])
       IN  /\ futures' = [futures EXCEPT ![i] = kind]
           /\ invocations' = Append(invocations, handler_invocation(kind, i - 1))
    /\ UNCHANGED <<pvars, pc, tvars, args, gpu_hw, gpu_cache, probes, result, error, segment_files,
                   failed_segments, concat_list, input_exists, temp_exists, response>>

\* The ffmpeg process of an attempt ends: the segment file is returned, a
\* failed hardware attempt is retried on the CPU, any other failure is raised.
HandlerWorkerExit(i) ==
    /\ pc = "collecting"
    /\ futures[i] \in {"copy", "hw", "cpu"}
    /\ \E exit \in ExitCodes :
          LET k == CHOOSE k \in DOMAIN invocations :
                       invocations[k].seg_idx = i - 1 /\ invocations[k].exit = "running"
              ended == [invocations EXCEPT ![k].exit = exit]
          IN  IF ~run_ffmpeg_raises(exit)
              THEN /\ futures' = [futures EXCEPT ![i] = "returned"]
                   /\ invocations' = ended
              ELSE IF futures[i] = "hw"
              THEN /\ futures' = [futures EXCEPT ![i] = "cpu"]
                   /\ invocations' = Append(ended, handler_invocation("cpu", i - 1))
              ELSE /\ futures' = [futures EXCEPT ![i] = "raised"]
                   /\ invocations' = ended
    /\ UNCHANGED <<pvars, pc, tvars, args, gpu_hw, gpu_cache, probes, result, error, segment_files,
                   failed_segments, concat_list, input_exists, temp_exists, response>>

\* The position in futures that the collecting loop (line 857) waits on.
cursor == Len(segment_files) + Len(failed_segments) + 1

\* Lines 860-861 and 865-867: the awaited future has returned or raised.
FutureResult ==
    /\ pc = "collecting"
    /\ cursor <= Len(futures)
    /\ futures[cursor] \in {"returned", "raised"}
    /\ IF futures[cursor] = "returned"
       THEN /\ segment_files' = Append(segment_files, cursor - 1)
            /\ UNCHANGED failed_segments
       ELSE /\ failed_segments' = Append(failed_segments, cursor - 1)
            /\ UNCHANGED segment_files
    /\ UNCHANGED <<pvars, pc, tvars, rvars, futures, concat_list, input_exists, temp_exists,
                   response>>

\* Lines 862-864: the awaited future is not done after MAX_SEGMENT_TIMEOUT.
FutureTimeout ==
    /\ pc = "collecting"
    /\ cursor <= Len(futures)
    /\ futures[cursor] \notin {"returned", "raised"}
    /\ failed_segments' = Append(failed_segments, cursor - 1)
    /\ UNCHANGED <<pvars, pc, tvars, rvars, futures, segment_files, concat_list, input_exists,
                   temp_exists, response>>

\* Lines 868-899 and handler() lines 1020-1024: the pool has shut down with
\* every future done.  With no rendered segment RuntimeError is raised, the
\* temporary directory is removed and handler() returns an error; otherwise
\* the list is sorted and written and the concat runs.
PoolJoined ==
    /\ pc = "collecting"
    /\ cursor > Len(futures)
    /\ InState({"returned", "raised"}) = DOMAIN futures
    /\ IF segment_files = <<>>
       THEN /\ temp_exists' = FALSE
            /\ response' = [error |-> "No segments rendered successfully!"]
            /\ pc' = "done"
            /\ UNCHANGED <<invocations, concat_list>>
       ELSE /\ concat_list' = sort_by_index(segment_files)
            /\ invocations' = Append(invocations, concat_invocation)
            /\ pc' = "assembling"
            /\ UNCHANGED <<temp_exists, response>>
    /\ UNCHANGED <<pvars, tvars, args, gpu_hw, gpu_cache, probes, result, error, futures, segment_files,
                   failed_segments, input_exists>>

\* Lines 899-906 and handler() lines 989-1024: the concat process ends, the
\* temporary directory is removed and handler() returns its dict.
HandlerConcatExit ==
    /\ pc = "assembling"
    /\ \E exit \in ExitCodes :
          /\ invocations' = [invocations EXCEPT ![Len(invocations)].exit = exit]
          /\ response' = IF run_ffmpeg_raises(exit)
                         THEN [error |-> "FFmpeg error"]
                         ELSE [success |-> TRUE,
                               output_file |-> "output_spliceo_v2.mp4",
                               processing_time |-> "elapsed",
                               output_size_mb |-> "file_size",
                               compression_percent |-> "compression",
                               realtime_speed |-> "speed",
                               segments_processed |-> Len(segments)]
    /\ temp_exists' = FALSE
    /\ pc' = "done"
    /\ UNCHANGED <<pvars, tvars, args, gpu_hw, gpu_cache, probes, result, error, futures, segment_files,
                   failed_segments, concat_list, input_exists>>

\* Wall-clock time passes the job limit while handler() is at work; no line
\* of handler.py reads a clock against such a limit.
JobLimitPasses ==
    /\ pc \in {"handler", "collecting", "assembling"}
    /\ clock = "within"
    /\ clock' = "over"
    /\ UNCHANGED <<pc, tvars, rvars, jvars, calls, procs, job>>

NextHandler ==
    \/ HandlerBegin
    \/ JobLimitPasses
    \/ \E i \in DOMAIN futures : HandlerWorkerStart(i)
    \/ \E i \in DOMAIN futures : HandlerWorkerExit(i)
    \/ FutureResult
    \/ FutureTimeout
    \/ PoolJoined
    \/ HandlerConcatExit

SpecHandler == InitHandler /\ [][NextHandler]_vars

(***************************************************************************)
(* Claims about handler.py                                                 *)
(***************************************************************************)
Elements(l) == {l[k] : k \in DOMAIN l}

\* The failed indices that the dict returned by handler() holds.
ReportedFailed ==
    IF "failed_segments" \in DOMAIN response
    THEN Elements(response.failed_segments) ELSE {}

\* C10: once every future is resolved each segment index is in exactly one of
\* the succeeded and the failed list; the concat runs, over exactly the
\* succeeded segments, if and only if at least one segment succeeded, and the
\* job fails otherwise; the success dict returned by handler() holds the
\* indices of the failed segments.
C10_PartitionConcatAndReport ==
    pc \in {"assembling", "done"} =>
        /\ Elements(segment_files) \cup Elements(failed_segments) = 0 .. Len(futures) - 1
        /\ Elements(segment_files) \cap Elements(failed_segments) = {}
        /\ Len(segment_files) + Len(failed_segments) = Len(futures)
        /\ (\E k \in DOMAIN invocations : invocations[k].kind = "concat")
              <=> segment_files # <<>>
        /\ segment_files # <<>> => concat_list = sort_by_index(segment_files)
        /\ segment_files = <<>> => "error" \in DOMAIN response
        /\ "success" \in DOMAIN response =>
              Elements(failed_segments) \subseteq ReportedFailed

\* C13: when the whole job runs longer than the job limit, the orchestration
\* is aborted and handler() returns a failure that tells a timeout from the
\* other failures.
C13_JobTimeoutAborts ==
    (pc = "done" /\ clock = "over") =>
        /\ "error" \in DOMAIN response
        /\ response.error = "Job timeout"
        /\ "success" \notin DOMAIN response

\* C23: for a job whose video_url is missing, not a string or does not start
\* with 'http', handler(job) returns error 'failure' with a message that names
\* the invalid video_url, and starts no render for the job.
C23_InvalidVideoUrlRejected ==
    video_url_error(job.input.video_url) # "" =>
        /\ futures = <<>>
        /\ invocations = <<>>
        /\ pc = "done" =>
              response = [error |-> "failure",
                          message |-> video_url_error(job.input.video_url)]

\* The length of the file a segment is rendered to: the invocation reads
\* duration(seg) of the input (-ss, -t) and setpts=1/speed*PTS rescales the
\* timestamps of a speed edit.
file_duration(seg) ==
    IF seg.edit.speed # ONE THEN (duration(seg) * ONE) \div seg.edit.speed
    ELSE duration(seg)

\* The length of the output of the concat demuxer with -c copy: the files of
\* the list one after the other.
RECURSIVE concat_duration(_)
concat_duration(l) ==
    IF l = <<>> THEN 0
    ELSE file_duration(segments[Head(l) + 1]) + concat_duration(Tail(l))

\* The sum of the durations of the segments of the list.
RECURSIVE kept_duration(_)
kept_duration(l) ==
    IF l = <<>> THEN 0
    ELSE duration(segments[Head(l) + 1]) + kept_duration(Tail(l))

\* C18: after the concatenation the duration of the output is compared with
\* the sum of the durations of the concatenated segments, and a job whose
\* output is off by more than the tolerance (here the 0.01 s the timeline
\* allows for gaps) does not end as a plain success.
C18_DurationVerified ==
    (pc = "done" /\ "success" \in DOMAIN response) =>
        Abs(concat_duration(concat_list) - kept_duration(concat_list)) <= GAP

\* The segment states of the render state machine, as future states:
\* PENDING is "queued", COPYING "copy", ENCODING_HW "hw", ENCODING_CPU "cpu",
\* DONE "returned", FAILED "raised".  A segment goes straight to the CPU
\* encoding when the probe reports the hardware unusable, and a copy may fail.
SegmentTransitions ==
    {<<"queued", "copy">>, <<"copy", "returned">>, <<"copy", "raised">>,
     <<"queued", "hw">>, <<"hw", "returned">>, <<"hw", "cpu">>, <<"hw", "raised">>,
     <<"queued", "cpu">>, <<"cpu", "returned">>, <<"cpu", "raised">>}

\* C14: in handler.render_segment_smart a segment follows only the
\* transitions of the state machine; a failed hardware invocation is followed
\* by at most one CPU invocation; a timeout in either encoding state makes the
\* segment FAILED; once DONE or FAILED no further invocation is made for it.
C14_SegmentStateMachine ==
    [][\A i \in DOMAIN futures \cap DOMAIN futures' :
          /\ futures'[i] # futures[i] => <<futures[i], futures'[i]>> \in SegmentTransitions
          /\ Cardinality({k \in InvocationsOf(invocations', i) :
                             invocations'[k].kind = "cpu"}) <= 1
          /\ (/\ futures[i] \in {"hw", "cpu"}
              /\ \E k \in InvocationsOf(invocations, i) :
                    /\ invocations[k].exit = "running"
                    /\ invocations'[k].exit = "timeout")
                => futures'[i] = "raised"
          /\ futures[i] \in {"returned", "raised"} =>
                InvocationsOf(invocations', i) = InvocationsOf(invocations, i)]_vars

(***************************************************************************)
(* Both orchestrations: processor.final_renderer.render_final_video and    *)
(* handler.render_final_video, each from its own initial states            *)
(***************************************************************************)
InitJobs == InitFinal \/ InitHandler

NextJobs == NextFinal \/ NextHandler

SpecJobs == InitJobs /\ [][NextJobs]_vars

\* C11: whatever the order in which the concurrent renders complete, the
\* concat list names the rendered segment files in strictly increasing segment
\* index, each succeeded segment exactly once.
C11_ConcatListInIndexOrder ==
    (\E k \in DOMAIN invocations : invocations[k].kind = "concat") =>
        /\ \A j \in 1 .. Len(concat_list) - 1 : concat_list[j] < concat_list[j + 1]
        /\ Elements(concat_list) = Elements(segment_files)
        /\ Len(concat_list) = Len(segment_files)
        /\ \A j \in DOMAIN concat_list : futures[concat_list[j] + 1] = "returned"

\* A concat list of at least two files written while an earlier segment is
\* missing from it.
C11_Witness ==
    /\ pc = "assembling"
    /\ Len(concat_list) >= 2
    /\ failed_segments # <<>>
    /\ concat_list[1] > 0

(***************************************************************************)
(* utils/ffmpeg.py run_ffmpeg: the call and its external process           *)
(***************************************************************************)
MaxCalls == 2

Workers == 1 .. MaxCalls

\* The ffmpeg process of a call and a process it may have forked.
ProcIds == Workers \X {"ffmpeg", "child"}

NoProcess == [state |-> "none", pgid |-> 0, sigterm |-> FALSE, heeds |-> FALSE]

\* A process started in its own session (preexec_fn=os.setsid): its process
\* group is its own.  heeds tells whether it ends when it receives SIGTERM.
Process(pgid, heeds) == [state |-> "running", pgid |-> pgid, sigterm |-> FALSE, heeds |-> heeds]

\* os.killpg(pgid, signal.SIGTERM)
killpg(pgid) ==
    [p \in ProcIds |->
        IF procs[p].state = "running" /\ procs[p].pgid = pgid
        THEN [procs[p] EXCEPT !.sigterm = TRUE] ELSE procs[p]]

InitRunFfmpeg ==
    /\ pc = "run_ffmpeg"
    /\ edits = <<>>
    /\ subtitles = <<>>
    /\ total_duration = MaxTime
    /\ orig_res = <<1920, 1080>>
    /\ out_res = <<1920, 1080>>
    /\ DEBUG_OVERLAY = FALSE
    /\ ENABLE_COLOR_GRADING = FALSE
    /\ segments = <<>>
    /\ RenderIdle
    /\ futures = <<>>
    /\ segment_files = <<>>
    /\ failed_segments = <<>>
    /\ concat_list = <<>>
    /\ input_exists = TRUE
    /\ temp_exists = TRUE
    /\ response = [pending |-> TRUE]
    /\ calls = [w \in Workers |-> [pc |-> "idle", error |-> ""]]
    /\ procs = [p \in ProcIds |-> NoProcess]
    /\ clock = "within"
    /\ job = NoJob

\* Lines 15-22: subprocess.Popen starts ffmpeg in a session of its own.
Popen(w) ==
    /\ pc = "run_ffmpeg"
    /\ calls[w].pc = "idle"
    /\ \E heeds \in BOOLEAN, forks \in BOOLEAN, child_heeds \in BOOLEAN :
          procs' = [procs EXCEPT
                       ![<<w, "ffmpeg">>] = Process(w, heeds),
                       ![<<w, "child">>] = IF forks THEN Process(w, child_heeds)
                                           ELSE NoProcess]
    /\ calls' = [calls EXCEPT ![w].pc = "communicate"]
    /\ UNCHANGED <<pc, tvars, rvars, jvars, clock, job>>

\* A process that was not signalled ends by itself, ffmpeg with an exit code.
ProcessExits(p) ==
    /\ pc = "run_ffmpeg"
    /\ procs[p].state = "running"
    /\ ~procs[p].sigterm
    /\ \E code \in {"0", "nonzero"} :
          procs' = [procs EXCEPT ![p].state = IF p[2] = "ffmpeg" THEN code ELSE "0"]
    /\ UNCHANGED <<pc, tvars, rvars, jvars, calls, clock, job>>

\* A signalled process that handles SIGTERM by ending does so.
ProcessTerminates(p) ==
    /\ pc = "run_ffmpeg"
    /\ procs[p].state = "running"
    /\ procs[p].sigterm
    /\ procs[p].heeds
    /\ procs' = [procs EXCEPT ![p].state = "terminated"]
    /\ UNCHANGED <<pc, tvars, rvars, jvars, calls, clock, job>>

\* Lines 24-31 and 40-41: communicate() returns within the timeout; a
\* non-zero return code raises RuntimeError, which line 40 wraps again.
CommunicateReturns(w) ==
    /\ pc = "run_ffmpeg"
    /\ calls[w].pc = "communicate"
    /\ procs[<<w, "ffmpeg">>].state \in {"0", "nonzero"}
    /\ calls' = [calls EXCEPT
                    ![w] = IF procs[<<w, "ffmpeg">>].state = "0"
                           THEN [pc |-> "returned", error |-> ""]
                           ELSE [pc |-> "raised", error |-> "FFmpeg error"]]
    /\ UNCHANGED <<pc, tvars, rvars, jvars, procs, clock, job>>

\* Lines 33-37: communicate() raises TimeoutExpired while ffmpeg is running;
\* SIGTERM goes to its process group and the call enters process.wait().
TimeoutExpired(w) ==
    /\ pc = "run_ffmpeg"
    /\ calls[w].pc = "communicate"
    /\ procs[<<w, "ffmpeg">>].state = "running"
    /\ procs' = killpg(procs[<<w, "ffmpeg">>].pgid)
    /\ calls' = [calls EXCEPT ![w].pc = "wait"]
    /\ UNCHANGED <<pc, tvars, rvars, jvars, clock, job>>

\* Lines 37-38: process.wait() returns once ffmpeg has ended, and
\* RuntimeError("FFmpeg timeout ...") is raised.
WaitReturns(w) ==
    /\ pc = "run_ffmpeg"
    /\ calls[w].pc = "wait"
    /\ procs[<<w, "ffmpeg">>].state # "running"
    /\ calls' = [calls EXCEPT ![w] = [pc |-> "raised", error |-> "FFmpeg timeout"]]
    /\ UNCHANGED <<pc, tvars, rvars, jvars, procs, clock, job>>

NextRunFfmpeg ==
    \/ \E w \in Workers : Popen(w)
    \/ \E p \in ProcIds : ProcessExits(p)
    \/ \E p \in ProcIds : ProcessTerminates(p)
    \/ \E w \in Workers : CommunicateReturns(w)
    \/ \E w \in Workers : TimeoutExpired(w)
    \/ \E w \in Workers : WaitReturns(w)

\* Every step that can be taken is eventually taken: Python runs the call on,
\* and a process that is due to end ends.
SpecRunFfmpeg == InitRunFfmpeg /\ [][NextRunFfmpeg]_vars /\ WF_vars(NextRunFfmpeg)

\* C12: a call whose ffmpeg process has not exited when the timeout expires
\* signals the process group and eventually ends by raising the timeout
\* error; it never returns normally and never blocks forever.
C12_TimeoutEndsCall ==
    \A w \in Workers :
        (calls[w].pc = "wait") ~>
            (calls[w].pc = "raised" /\ calls[w].error = "FFmpeg timeout")

(***************************************************************************)
(* Both render_segment_smart functions: the one of                         *)
(* processor.segment_renderer on one segment, and the one of handler.py    *)
(* in the handler's process pool                                           *)
(***************************************************************************)
InitRenders == InitRender \/ InitHandler

NextRenders == NextRender \/ NextHandler

SpecRenders == InitRenders /\ [][NextRenders]_vars

\* The render of the segment at position i has ended.
RenderEnded(i) ==
    IF futures = <<>> THEN pc = "done" /\ args[1] = i - 1
    ELSE futures[i] \in {"returned", "raised"}

\* The render of the segment at position i has returned its file.
RenderReturned(i) ==
    IF futures = <<>> THEN result = "returned" ELSE futures[i] = "returned"

\* What C15 says of the invocations made for a copy-eligible segment.
CopiedOnce(i) ==
    LET made == InvocationsOf(invocations, i)
    IN  /\ Cardinality(made) <= 1
        /\ \A k \in made : /\ invocations[k].kind = "copy"
                           /\ invocations[k].encoder = "copy"
                           /\ invocations[k].video = <<>>
                           /\ invocations[k].audio = <<>>
        /\ RenderEnded(i) =>
              /\ Cardinality(made) = 1
              /\ \A k \in made : invocations[k].exit = "0" => RenderReturned(i)

\* C15: for a segment with can_copy = true, render_segment_smart makes exactly
\* one external invocation, a stream copy with no filter graph and no encoder,
\* and returns; it never consults the hardware probe and never enters an
\* encoding attempt, whatever the GPU availability.
C15_CopyPathOnly ==
    [][\A i \in DOMAIN segments :
          (segments[i].can_copy /\ segments' = segments) =>
              /\ CopiedOnce(i)'
              /\ InvocationsOf(invocations', i) # InvocationsOf(invocations, i)
                    => gpu_cache' = gpu_cache]_vars

\* A copy-eligible segment rendered by its one copy on a machine whose GPU is
\* not usable and was never probed.
C15_Witness ==
    /\ pc = "done"
    /\ futures = <<>>
    /\ args[2].can_copy
    /\ ~gpu_hw
    /\ gpu_cache = "None"
    /\ probes = 0
    /\ Len(invocations) = 1
    /\ invocations[1].exit = "0"
    /\ result = "returned"


(***************************************************************************)
(* processor/analyzer.py parse_edit_map                                    *)
(***************************************************************************)
MaxEntries == 2

\* JSON values of an entry's fields: a number, a string that is no number,
\* null, and the field left out.
JNum(n) == [t |-> "number", v |-> n]
JStr == [t |-> "string", v |-> 0]
JNull == [t |-> "null", v |-> 0]
JAbsent == [t |-> "absent", v |-> 0]

\* An entry of a list: an object with its fields, or a value that is no
\* object (a string).
JObject(start, end, speed, anchorX, text) ==
    [t |-> "object", start |-> start, end |-> end, speed |-> speed,
     anchorX |-> anchorX, text |-> text]
JNotObject == [t |-> "string", start |-> JAbsent, end |-> JAbsent, speed |-> JAbsent,
               anchorX |-> JAbsent, text |-> JAbsent]

\* e.get(key, default)
get(value, default) == IF value.t = "absent" THEN default ELSE value

\* The exception that leaves the try block of an entry, "" when none does:
\* e.get of a value that is no object raises AttributeError, float() of a
\* string that is no number ValueError, float(None) TypeError.
entry_exception(e, floats) ==
    CASE e.t # "object" -> "AttributeError"
      [] \E x \in floats : x.t = "string" -> "ValueError"
      [] \E x \in floats : x.t = "null" -> "TypeError"
      [] OTHER -> ""

\* The arguments float() is applied to, defaults filled in.
edit_floats(e) ==
    {get(e.end, JNum(0)), get(e.start, JNum(0)), get(e.speed, JNum(ONE)),
     get(e.anchorX, JNum(ONE \div 2))}
subtitle_floats(s) == {get(s.end, JNum(0)), get(s.start, JNum(0))}

\* Edit(zoom=e.get("zoom", 1.0), end=float(e.get("end", 0)), ...)
parsed_edit(e) ==
    Edit("zoom", get(e.start, JNum(0)).v, get(e.end, JNum(0)).v,
         get(e.speed, JNum(ONE)).v, ONE)

\* Subtitle(text=str(s.get("text", "")), ...)
parsed_subtitle(s) ==
    Subtitle(IF s.text.t = "absent" THEN "" ELSE "text",
             get(s.start, JNum(0)).v, get(s.end, JNum(0)).v)

CaughtExceptions == {"ValueError", "TypeError", "KeyError"}

\* The for loop over the edits: [raised, list]; an exception the except
\* clause does not name ends the loop and the call.
RECURSIVE parse_edits(_, _)
parse_edits(entries, acc) ==
    IF entries = <<>> THEN [raised |-> "", list |-> acc]
    ELSE LET e == Head(entries)
             exc == entry_exception(e, edit_floats(e))
         IN  CASE exc = "" -> parse_edits(Tail(entries), Append(acc, parsed_edit(e)))
               [] exc \in CaughtExceptions -> parse_edits(Tail(entries), acc)
               [] OTHER -> [raised |-> exc, list |-> acc]

RECURSIVE parse_subtitles(_, _)
parse_subtitles(entries, acc) ==
    IF entries = <<>> THEN [raised |-> "", list |-> acc]
    ELSE LET s == Head(entries)
             exc == entry_exception(s, subtitle_floats(s))
         IN  CASE exc = "" -> parse_subtitles(Tail(entries), Append(acc, parsed_subtitle(s)))
               [] exc \in CaughtExceptions -> parse_subtitles(Tail(entries), acc)
               [] OTHER -> [raised |-> exc, list |-> acc]

\* parse_edit_map(data) of a dict: [raised, edits, subtitles].
parse_edit_map(data) ==
    LET es == parse_edits(data.edits, <<>>)
        ss == parse_subtitles(data.subtitles, <<>>)
    IN  CASE es.raised # "" -> [raised |-> es.raised, edits |-> <<>>, subtitles |-> <<>>]
          [] ss.raised # "" -> [raised |-> ss.raised, edits |-> <<>>, subtitles |-> <<>>]
          [] OTHER -> [raised |-> "", edits |-> es.list, subtitles |-> ss.list]

\* Entries of the two lists: well-formed ones, ones with a value of the
\* wrong type, ones with a field missing, and one that is no object.
EditEntries ==
    {JObject(st, en, sp, ax, JAbsent) :
        st \in {JNum(0), JAbsent, JStr, JNull}, en \in {JNum(2), JStr},
        sp \in {JNum(2 * ONE), JAbsent}, ax \in {JNum(ONE \div 2), JNull}}
    \cup {JNotObject}
SubtitleEntries ==
    {JObject(st, en, JAbsent, JAbsent, tx) :
        st \in {JNum(0), JStr}, en \in {JNum(2), JAbsent}, tx \in {JStr, JAbsent}}
    \cup {JNotObject}

InitParse ==
    /\ pc = "parse_edit_map"
    /\ args \in [edits : SeqsUpTo(EditEntries, MaxEntries),
                 subtitles : SeqsUpTo(SubtitleEntries, MaxEntries - 1)]
    /\ edits = <<>>
    /\ subtitles = <<>>
    /\ total_duration = MaxTime
    /\ orig_res = <<1920, 1080>>
    /\ out_res = <<1920, 1080>>
    /\ DEBUG_OVERLAY = FALSE
    /\ ENABLE_COLOR_GRADING = FALSE
    /\ segments = <<>>
    /\ gpu_hw = FALSE
    /\ gpu_cache = "None"
    /\ probes = 0
    /\ invocations = <<>>
    /\ result = "none"
    /\ error = ""
    /\ JobIdle

\* edits, subtitles = parse_edit_map(data)
ParseEditMap ==
    /\ pc = "parse_edit_map"
    /\ LET r == parse_edit_map(args)
       IN  /\ result' = IF r.raised = "" THEN "returned" ELSE "raised"
           /\ error' = r.raised
           /\ edits' = r.edits
           /\ subtitles' = r.subtitles
    /\ pc' = "parsed"
    /\ UNCHANGED <<pvars, total_duration, orig_res, out_res, DEBUG_OVERLAY,
                   ENABLE_COLOR_GRADING, segments, args, gpu_hw, gpu_cache, probes,
                   invocations, jvars>>

NextParse == ParseEditMap

SpecParse == InitParse /\ [][NextParse]_vars

\* An entry is well formed when it is an object whose times are numbers and
\* whose other fields, where given, have the type of the field.
well_formed_edit(e) ==
    /\ e.t = "object"
    /\ e.start.t = "number" /\ e.end.t = "number"
    /\ e.speed.t \in {"number", "absent"}
    /\ e.anchorX.t \in {"number", "absent"}
well_formed_subtitle(s) ==
    /\ s.t = "object"
    /\ s.start.t = "number" /\ s.end.t = "number"
    /\ s.text.t \in {"string", "absent"}

\* C19: whatever mix of well-formed and malformed entries the two lists hold,
\* parse_edit_map does not raise and returns the well-formed entries, in the
\* order of the input.
C19_MalformedEntriesSkipped ==
    pc = "parsed" =>
        /\ result = "returned"
        /\ edits = [k \in DOMAIN SelectSeq(args.edits, well_formed_edit) |->
                       parsed_edit(SelectSeq(args.edits, well_formed_edit)[k])]
        /\ subtitles = [k \in DOMAIN SelectSeq(args.subtitles, well_formed_subtitle) |->
                           parsed_subtitle(SelectSeq(args.subtitles, well_formed_subtitle)[k])]


(***************************************************************************)
(* create_segments called twice on the same lists                          *)
(***************************************************************************)
\* A subtitle over the first two time units, in the units of either builder.
CreateSubtitles == {Subtitle("a", 0, 2), Subtitle("b", 0, 50 * EPS)}

\* The caller's lists as they were when handed over, and the segments the
\* first call returned: <<edits, subtitles, segments>>.
InitCreate ==
    /\ \/ /\ pc = "timeline.create_segments"
          /\ edits \in SeqsUpTo(TimelineEdits, MaxEdits)
          /\ total_duration \in Durations
       \/ /\ pc = "handler.create_segments"
          /\ edits \in SeqsUpTo(HandlerEdits, MaxEdits)
          /\ total_duration = 3 * 50 * EPS
    /\ subtitles \in SeqsUpTo(CreateSubtitles, MaxSubs)
    /\ orig_res = <<1920, 1080>>
    /\ out_res = <<1920, 1080>>
    /\ DEBUG_OVERLAY = FALSE
    /\ ENABLE_COLOR_GRADING = FALSE
    /\ segments = <<>>
    /\ args = <<edits, subtitles, <<>>>>
    /\ gpu_hw = FALSE
    /\ gpu_cache = "None"
    /\ probes = 0
    /\ invocations = <<>>
    /\ result = "none"
    /\ error = ""
    /\ JobIdle

\* segments = create_segments(edits, subtitles, total_duration, ...) of
\* processor/timeline.py, which reads the two lists.
TimelineCreateSegments ==
    /\ pc \in {"timeline.create_segments", "timeline.once"}
    /\ segments' = create_segments(edits, subtitles, total_duration,
                                   orig_res[1], orig_res[2], out_res[1], out_res[2],
                                   DEBUG_OVERLAY, ENABLE_COLOR_GRADING)
    /\ args' = IF pc = "timeline.once" THEN args ELSE <<args[1], args[2], segments'>>
    /\ pc' = IF pc = "timeline.once" THEN "timeline.twice" ELSE "timeline.once"
    /\ UNCHANGED <<pvars, edits, subtitles, total_duration, orig_res, out_res,
                   DEBUG_OVERLAY, ENABLE_COLOR_GRADING, gpu_hw, gpu_cache, probes,
                   invocations, result, error, jvars>>

\* segments = create_segments(edits, subtitles, total_duration, ...) of
\* handler.py, which sorts the list of edits it was given (edits.sort) unless
\* the list is empty.
HandlerCreateSegments ==
    /\ pc \in {"handler.create_segments", "handler.once"}
    /\ segments' = handler_create_segments(edits, subtitles, total_duration, orig_res,
                                           out_res, DEBUG_OVERLAY, ENABLE_COLOR_GRADING)
    /\ edits' = sort_by_start(edits)
    /\ args' = IF pc = "handler.once" THEN args ELSE <<args[1], args[2], segments'>>
    /\ pc' = IF pc = "handler.once" THEN "handler.twice" ELSE "handler.once"
    /\ UNCHANGED <<pvars, subtitles, total_duration, orig_res, out_res,
                   DEBUG_OVERLAY, ENABLE_COLOR_GRADING, gpu_hw, gpu_cache, probes,
                   invocations, result, error, jvars>>

NextCreate == TimelineCreateSegments \/ HandlerCreateSegments

SpecCreate == InitCreate /\ [][NextCreate]_vars

\* C20: a second call of create_segments on the same edits, subtitles and
\* duration returns the segments the first call returned, and a call leaves
\* the two lists as they were given to it.
C20_CreateSegmentsRepeatable ==
    /\ pc \in {"timeline.twice", "handler.twice"} => segments = args[3]
    /\ pc \in {"timeline.once", "timeline.twice", "handler.once", "handler.twice"} =>
          /\ edits = args[1]
          /\ subtitles = args[2]


(***************************************************************************)
(* utils/retry.py retry                                                    *)
(***************************************************************************)
MaxTries == 4

\* What a call of the wrapped function does: it returns, raises one of the
\* exceptions the decorator names, or raises another exception.
Outcomes == {"returns", "E", "OtherError"}

\* The loop of line 19 with one more turn.
retry_loops_again(mtries) == mtries > 0

\* Line 19: while mtries > 1
retry_loops(mtries) == mtries > 1

\* A decorated function is called: tries, delay (in tenths of a second) and
\* backoff are the decorator's, a positive number of attempts as wherever the
\* repository uses it.  calls holds the wrapper's locals and the calls made.
InitRetry ==
    /\ pc = "wrapper"
    /\ edits = <<>>
    /\ subtitles = <<>>
    /\ total_duration = MaxTime
    /\ orig_res = <<1920, 1080>>
    /\ out_res = <<1920, 1080>>
    /\ DEBUG_OVERLAY = FALSE
    /\ ENABLE_COLOR_GRADING = FALSE
    /\ segments = <<>>
    /\ \E tries \in 1 .. MaxTries, delay \in {1, 20}, backoff \in {1, 2} :
          /\ args = [tries |-> tries, delay |-> delay, backoff |-> backoff]
          /\ calls = [mtries |-> tries, mdelay |-> delay, slept |-> 0, history |-> <<>>]
    /\ gpu_hw = FALSE
    /\ gpu_cache = "None"
    /\ probes = 0
    /\ invocations = <<>>
    /\ result = "none"
    /\ error = ""
    /\ futures = <<>>
    /\ segment_files = <<>>
    /\ failed_segments = <<>>
    /\ concat_list = <<>>
    /\ input_exists = TRUE
    /\ temp_exists = FALSE
    /\ response = [pending |-> TRUE]
    /\ procs = <<>>
    /\ clock = "within"
    /\ job = NoJob

\* Lines 19-29: a call inside the loop; a named exception is logged, slept on
\* and counted, the result is returned, any other exception leaves the wrapper.
LoopCall ==
    /\ pc = "wrapper"
    /\ retry_loops(calls.mtries)
    /\ \E outcome \in Outcomes :
          /\ calls' = IF outcome = "E"
                      THEN [mtries |-> calls.mtries - 1,
                            mdelay |-> calls.mdelay * args.backoff,
                            slept |-> calls.slept + calls.mdelay,
                            history |-> Append(calls.history, outcome)]
                      ELSE [calls EXCEPT !.history = Append(@, outcome)]
          /\ pc' = IF outcome = "E" THEN "wrapper" ELSE "done"
          /\ result' = CASE outcome = "E" -> "none"
                         [] outcome = "returns" -> "returned"
                         [] OTHER -> "raised"
          /\ error' = IF outcome = "OtherError" THEN outcome ELSE ""
    /\ UNCHANGED <<tvars, args, gpu_hw, gpu_cache, probes, invocations, jvars, procs, clock, job>>

\* Line 31: the call after the loop, whose result or exception is the
\* wrapper's.
LastCall ==
    /\ pc = "wrapper"
    /\ ~retry_loops(calls.mtries)
    /\ \E outcome \in Outcomes :
          /\ calls' = [calls EXCEPT !.history = Append(@, outcome)]
          /\ result' = IF outcome = "returns" THEN "returned" ELSE "raised"
          /\ error' = IF outcome = "returns" THEN "" ELSE outcome
    /\ pc' = "done"
    /\ UNCHANGED <<tvars, args, gpu_hw, gpu_cache, probes, invocations, jvars, procs, clock, job>>

NextRetry == LoopCall \/ LastCall

SpecRetry == InitRetry /\ [][NextRetry]_vars

\* The calls made so far that raised a named exception.
RaisedE(h) == {k \in DOMAIN h : h[k] = "E"}

\* C22: the wrapped function is called at most tries times; when the first
\* k-1 calls raise E and the k-th returns, the wrapper returns after exactly k
\* calls; when all tries calls raise E, the exception of the last one reaches
\* the caller after exactly tries calls.
C22_AtMostTriesCalls ==
    LET h == calls.history
        k == Len(h)
    IN  /\ k <= args.tries
        /\ (k > 0 /\ h[k] = "returns" /\ RaisedE(h) = 1 .. k - 1) =>
              pc = "done" /\ result = "returned"
        /\ (k = args.tries /\ RaisedE(h) = 1 .. k) =>
              pc = "done" /\ result = "raised" /\ error = "E"
        /\ result = "returned" => h[k] = "returns" /\ RaisedE(h) = 1 .. k - 1
        /\ (result = "raised" /\ error = "E") => k = args.tries /\ RaisedE(h) = 1 .. k

\* Three calls were made: two raised and were retried, the third returned.
C22_Witness ==
    /\ pc = "done"
    /\ result = "returned"
    /\ calls.history = <<"E", "E", "returns">>
    /\ args.tries = 3


(***************************************************************************)
(* processor/segment_renderer.py _render_cpu_fallback on a tuple it can     *)
(* unpack: the filter list and the command of lines 345-384                *)
(***************************************************************************)
InitCpuFallback ==
    /\ pc = "_render_cpu_fallback"
    /\ edits \in SeqsUpTo(RenderEdits, MaxEdits - 1)
    /\ subtitles \in SeqsUpTo(RenderSubtitles, MaxSubs)
    /\ total_duration = MaxTime
    /\ orig_res \in {<<1920, 1080>>, <<1920, 720>>}
    /\ out_res \in {get_output_resolution(orig_res, r) :
                       r \in {"original", "1080p", "720p"}}
    /\ DEBUG_OVERLAY \in BOOLEAN
    /\ ENABLE_COLOR_GRADING = FALSE
    /\ segments = create_segments(edits, subtitles, total_duration,
                                  orig_res[1], orig_res[2], out_res[1], out_res[2],
                                  DEBUG_OVERLAY, ENABLE_COLOR_GRADING)
    /\ gpu_hw = FALSE
    /\ gpu_cache = "False"
    /\ probes = 0
    /\ \E i \in 1 .. Len(segments), has_audio \in BOOLEAN :
          args = SubSeq(render_args(i - 1, segments[i], DEBUG_OVERLAY, has_audio, orig_res,
                                    out_res, TRUE, "None"), 1, 11)
    /\ invocations = <<>>
    /\ result = "none"
    /\ error = ""
    /\ JobIdle

\* Lines 342-384: the tuple is unpacked, the filter list and the command are
\* put together; reading ENCODING_PRESET for the command raises NameError, so
\* the command is never run.
CpuFallbackBuilds ==
    /\ pc = "_render_cpu_fallback"
    /\ invocations' =
          <<[Invocation("cpu", args[1], "none",
                        join(cpu_filters(args[1], args[2], args[6], args[7], args[8],
                                         args[9], args[10], args[11])),
                        IF args[7] THEN get_segment_filters(args[2], args[7])[2] ELSE <<>>,
                        "libx264")
             EXCEPT !.exit = IF UnboundNames # {} THEN "not run" ELSE "running"]>>
    /\ error' = IF UnboundNames # {} THEN "NameError" ELSE ""
    /\ result' = IF UnboundNames # {} THEN "raised" ELSE "none"
    /\ pc' = IF UnboundNames # {} THEN "done" ELSE "encoding_cpu"
    /\ UNCHANGED <<pvars, tvars, args, gpu_hw, gpu_cache, probes, jvars>>

NextCpuFallback == CpuFallbackBuilds

SpecCpuFallback == InitCpuFallback /\ [][NextCpuFallback]_vars

\* C25: every filter list built for the CPU-only path holds host-domain
\* operations only, also for a segment whose edit zooms in, and the command
\* uses a software decoder and a software encoder.
C25_CpuListHostOnly ==
    \A k \in DOMAIN invocations :
        invocations[k].kind = "cpu" =>
            /\ \A j \in DOMAIN invocations[k].video :
                  invocations[k].video[j] \notin DeviceOnlyFilters \cup {"hwupload_cuda"}
            /\ invocations[k].hwaccel_output_format = "none"
            /\ invocations[k].encoder = "libx264"


(***************************************************************************)
(* effects/speed.py build_speed_filters, one loop turn at a time           *)
(***************************************************************************)
\* Speeds are tenths, from -MinSpeed/10 to MaxSpeed/10; val is the fraction
\* val[1] / val[2].  A float that keeps doubling ends at infinity and stays
\* there: -MaxMagnitude stands for every value at or below it.  A list of
\* MaxStages stages stands for every longer one.
MinSpeed == 2
MaxSpeed == 40
MaxMagnitude == 64
MaxStages == 6

Speeds == (0 - MinSpeed) .. MaxSpeed

\* A loop that halves down to 4.0 only.
above_range_late(val) == val[1] > 4 * val[2]

\* Line 10: val > 2.0
above_range(val) == val[1] > 2 * val[2]

\* Line 13: val < 0.5
below_range(val) == 2 * val[1] < val[2]

\* Line 16: 0.5 <= val <= 2.0 and val != 1.0
final_stage(val) == val[2] <= 2 * val[1] /\ val[1] <= 2 * val[2] /\ val[1] # val[2]

\* val /= 2.0 and val *= 2.0
halved(val) == <<val[1], 2 * val[2]>>
doubled(val) ==
    <<IF 2 * val[1] < 0 - MaxMagnitude THEN 0 - MaxMagnitude ELSE 2 * val[1], val[2]>>

\* a_filters.append(stage)
appended(a_filters, stage) ==
    IF Len(a_filters) < MaxStages THEN Append(a_filters, stage) ELSE a_filters

InitSpeed ==
    /\ pc = "build_speed_filters"
    /\ edits = <<>>
    /\ subtitles = <<>>
    /\ total_duration = MaxTime
    /\ orig_res = <<1920, 1080>>
    /\ out_res = <<1920, 1080>>
    /\ DEBUG_OVERLAY = FALSE
    /\ ENABLE_COLOR_GRADING = FALSE
    /\ segments = <<>>
    /\ args \in [speed_val : Speeds, has_audio : BOOLEAN]
    /\ calls = [val |-> <<args.speed_val, ONE>>, a_filters |-> <<>>]
    /\ gpu_hw = FALSE
    /\ gpu_cache = "None"
    /\ probes = 0
    /\ invocations = <<>>
    /\ result = "none"
    /\ error = ""
    /\ futures = <<>>
    /\ segment_files = <<>>
    /\ failed_segments = <<>>
    /\ concat_list = <<>>
    /\ input_exists = TRUE
    /\ temp_exists = FALSE
    /\ response = [pending |-> TRUE]
    /\ procs = <<>>
    /\ clock = "within"
    /\ job = NoJob

\* Lines 5-9: setpts={1/speed_val}*PTS divides by the speed; without audio the
\* function returns at once.
SpeedBegin ==
    /\ pc = "build_speed_filters"
    /\ pc' = CASE args.speed_val = 0 -> "raised"
               [] ~args.has_audio -> "returned"
               [] OTHER -> "while_above"
    /\ error' = IF args.speed_val = 0 THEN "ZeroDivisionError" ELSE ""
    /\ result' = IF args.speed_val # 0 /\ ~args.has_audio THEN <<"setpts", <<>>>> ELSE result
    /\ UNCHANGED <<tvars, args, gpu_hw, gpu_cache, probes, invocations, jvars, calls,
                   procs, clock, job>>

\* Lines 10-12: one turn of while val > 2.0, or its exit.
HalvingTurn ==
    /\ pc = "while_above"
    /\ IF above_range(calls.val)
       THEN /\ calls' = [val |-> halved(calls.val),
                         a_filters |-> appended(calls.a_filters, <<2, 1>>)]
            /\ pc' = pc
       ELSE /\ calls' = calls
            /\ pc' = "while_below"
    /\ UNCHANGED <<tvars, rvars, jvars, procs, clock, job>>

\* Lines 13-15: one turn of while val < 0.5, or its exit.
DoublingTurn ==
    /\ pc = "while_below"
    /\ IF below_range(calls.val)
       THEN /\ calls' = [val |-> doubled(calls.val),
                         a_filters |-> appended(calls.a_filters, <<1, 2>>)]
            /\ pc' = pc
       ELSE /\ calls' = calls
            /\ pc' = "last_stage"
    /\ UNCHANGED <<tvars, rvars, jvars, procs, clock, job>>

\* Lines 16-19: the stage of the remaining factor, and the return.
SpeedReturns ==
    /\ pc = "last_stage"
    /\ calls' = [calls EXCEPT !.a_filters = IF final_stage(calls.val)
                                            THEN appended(@, calls.val) ELSE @]
    /\ result' = <<"setpts", calls'.a_filters>>
    /\ pc' = "returned"
    /\ UNCHANGED <<tvars, args, gpu_hw, gpu_cache, probes, invocations, error, jvars,
                   procs, clock, job>>

NextSpeed == SpeedBegin \/ HalvingTurn \/ DoublingTurn \/ SpeedReturns

\* Python runs the function on: a step that can be taken is taken.
SpecSpeed == InitSpeed /\ [][NextSpeed]_vars /\ WF_vars(NextSpeed)

\* Numerators and denominators of a stage list multiplied out.
RECURSIVE Numerators(_)
Numerators(l) == IF l = <<>> THEN 1 ELSE Head(l)[1] * Numerators(Tail(l))
RECURSIVE Denominators(_)
Denominators(l) == IF l = <<>> THEN 1 ELSE Head(l)[2] * Denominators(Tail(l))

\* C27: for a speed v > 0 with audio, every stage ratio lies in [0.5, 2.0], the
\* product of the ratios is v, every stage but the last is exactly 2.0 or 0.5,
\* and the last stage is left out exactly when the remaining factor is 1.0;
\* without audio the audio list is empty.
C27_AtempoStages ==
    (pc = "returned" /\ args.speed_val > 0) =>
        LET a == result[2]
        IN  IF ~args.has_audio THEN a = <<>>
            ELSE /\ \A k \in DOMAIN a : a[k][2] <= 2 * a[k][1] /\ a[k][1] <= 2 * a[k][2]
                 /\ Numerators(a) * ONE = args.speed_val * Denominators(a)
                 /\ \A k \in 1 .. Len(a) - 1 : a[k] \in {<<2, 1>>, <<1, 2>>}
                 /\ IF calls.val[1] = calls.val[2]
                    THEN a = <<>>
                    ELSE a # <<>> /\ a[Len(a)] = calls.val

\* Speed 0.1: three stages of 0.5 and a last stage of 0.8.
C27_Witness ==
    /\ pc = "returned"
    /\ args.speed_val = 1
    /\ args.has_audio
    /\ Len(result[2]) = 4

\* C29: build_speed_filters with audio terminates and returns a finite stage
\* list for every speed but 1.0, zero and negative speeds included.
C29_SpeedFiltersTerminate ==
    (pc = "build_speed_filters" /\ args.has_audio /\ args.speed_val # ONE)
        ~> (pc = "returned")

====
